---- MODULE Spec2Model ----
(***************************************************************************)
(* Model of the dataflow core of the Platform repository: Value,           *)
(* ObjectRepository, Port, Element and Connection                          *)
(* (src/backend/src/Core).                                                 *)
(*                                                                         *)
(* Python objects live in heaps keyed by object identity (vals, ports,     *)
(* elems); repositories hold references.  An Optional[T] is the empty      *)
(* tuple for None and the one-element tuple <<x>> for a present x.  Names  *)
(* are tuples of one-character strings, so that the suffix arithmetic of   *)
(* ObjectRepository is computed character by character.                    *)
(***************************************************************************)
EXTENDS Integers, Sequences, FiniteSets, TLC

VARIABLES
    vals,       \* heap of Value objects: identity -> Value fields
    ports,      \* heap of Port objects: identity -> [name, values]
    elems,      \* heap of Element objects: identity -> [name, in_ports, out_ports, parameters]
    repo,       \* the ObjectRepository under test
    erepo,      \* the element repository handed to Connection.validate / propagate
    conn,       \* the Connection under test
    hashOrder,  \* iteration order of a set of ValueClass keys in this process
    nextId,     \* number of uuid4() identifiers drawn so far
    scheme,     \* the Scheme object: repositories, graph, indices, name counter
    conns,      \* heap of Connection objects registered in the scheme
    last        \* the last call made: its name, its outcome, its object, its identifier

vars == <<vals, ports, elems, repo, erepo, conn, hashOrder, nextId, scheme, conns, last>>

--------------------------------------------------------------------------
(* Bounds of the model *)

\* payloads are the integers 1..MaxPayload (and None)
MaxPayload == 2
\* a repository accepts at most MaxRegs registrations in one behaviour
MaxRegs == 2
\* a port of the validated fragment holds at most MaxPortVals Values
MaxPortVals == 2

--------------------------------------------------------------------------
(* Optional values and strings *)

NoneV == <<>>
Some(x) == <<x>>
IsNone(o) == o = <<>>
Get(o) == o[1]

\* The record kept of a call: res is "" when it returned, else the error raised
CallInfo(op, res, obj, id, info) ==
    [op |-> op, res |-> res, obj |-> obj, id |-> id, info |-> info]
Call(op, res, obj, id) == CallInfo(op, res, obj, id, NoneV)
NoCall == Call("", "", 0, NoneV)

\* str.endswith
EndsWith(s, suf) ==
    /\ Len(s) >= Len(suf)
    /\ SubSeq(s, Len(s) - Len(suf) + 1, Len(s)) = suf

\* '_' in s
HasUnderscore(s) == \E i \in 1..Len(s) : s[i] = "_"

\* Python truthiness of an Optional[str]: None and "" are false
Truthy(optStr) == ~IsNone(optStr) /\ Len(Get(optStr)) > 0

--------------------------------------------------------------------------
(* Value.py *)

StatusSet == {"UNKNOWN", "DEPEND", "CALCULATED", "FIXED"}

PayloadSet == 1..MaxPayload
OptPayload == {NoneV} \cup {Some(p) : p \in PayloadSet}
OptStatus == {NoneV} \cup {Some(s) : s \in StatusSet}

\* Value._validate_value: TRUE when the value passes, FALSE when ValueError is raised
ValidateValue(v, value) ==
    IF IsNone(value) THEN TRUE
    ELSE /\ ~(~IsNone(v.min_value) /\ Get(value) < Get(v.min_value))
         /\ ~(~IsNone(v.max_value) /\ Get(value) > Get(v.max_value))

\* Value._save_previous (the copy of an integer payload is the payload)
SavePrevious(v) == [v EXCEPT !.prev_val = v.val, !.prev_status = Some(v.status)]

\* mutant: the history slot is written before the bounds are checked
ValueUpdateSaveFirst(v, new_value, new_status) ==
    LET s == IF v.store_prev THEN SavePrevious(v) ELSE v IN
    IF ~ValidateValue(v, new_value)
    THEN [ok |-> FALSE, v |-> s]
    ELSE [ok |-> TRUE,
          v  |-> [s EXCEPT !.val = new_value,
                           !.status = IF IsNone(new_status) THEN s.status
                                      ELSE Get(new_status)]]

\* mutant: the new payload is added to the stored one instead of replacing it
ValueUpdateAccumulate(v, new_value, new_status) ==
    IF ~ValidateValue(v, new_value)
    THEN [ok |-> FALSE, v |-> v]
    ELSE LET s == IF v.store_prev THEN SavePrevious(v) ELSE v
             sum == IF IsNone(new_value) \/ IsNone(v.val) THEN new_value
                    ELSE Some(Get(v.val) + Get(new_value))
         IN [ok |-> TRUE,
             v  |-> [s EXCEPT !.val = sum,
                              !.status = IF IsNone(new_status) THEN s.status
                                         ELSE Get(new_status)]]

\* mutant: the new state is committed before the history slot is written
ValueUpdateCommitFirst(v, new_value, new_status) ==
    IF ~ValidateValue(v, new_value)
    THEN [ok |-> FALSE, v |-> v]
    ELSE LET c == [v EXCEPT !.val = new_value,
                            !.status = IF IsNone(new_status) THEN v.status
                                       ELSE Get(new_status)]
         IN [ok |-> TRUE, v |-> IF v.store_prev THEN SavePrevious(c) ELSE c]

\* Value.update: ok = FALSE stands for the ValueError of _validate_value
ValueUpdate(v, new_value, new_status) ==
    IF ~ValidateValue(v, new_value)
    THEN [ok |-> FALSE, v |-> v]
    ELSE LET s == IF v.store_prev THEN SavePrevious(v) ELSE v
         IN [ok |-> TRUE,
             v  |-> [s EXCEPT !.val = new_value,
                              !.status = IF IsNone(new_status) THEN s.status
                                         ELSE Get(new_status)]]

\* Value.__init__: the value setter runs update, then the initial state is saved
ValueInit(name, value_spec, value, status, store_prev, min_value, max_value) ==
    LET v0 == [name |-> name, value_spec |-> value_spec, val |-> NoneV,
               status |-> status, store_prev |-> store_prev,
               prev_val |-> NoneV, prev_status |-> NoneV,
               min_value |-> min_value, max_value |-> max_value]
        r == ValueUpdate(v0, value, NoneV)
    IN [ok |-> r.ok,
        v  |-> IF r.ok /\ store_prev THEN SavePrevious(r.v) ELSE r.v]

\* mutant: the previous status is not looked at
ValueGetResidualAnyStatus(v) ==
    IF IsNone(v.prev_val) THEN [err |-> "", res |-> NoneV, v |-> v]
    ELSE IF IsNone(v.val) THEN [err |-> "", res |-> NoneV, v |-> v]
    ELSE [err |-> "", res |-> Some(Get(v.val) - Get(v.prev_val)), v |-> v]

\* Value.get_residual: res is the value returned, None as NoneV; a current
\* payload None has no __sub__, an integer payload has
ValueGetResidual(v) ==
    IF IsNone(v.prev_val) THEN [err |-> "", res |-> NoneV, v |-> v]
    ELSE IF v.prev_status = Some("UNKNOWN") THEN [err |-> "", res |-> NoneV, v |-> v]
    ELSE IF IsNone(v.val) THEN [err |-> "", res |-> NoneV, v |-> v]
    ELSE [err |-> "", res |-> Some(Get(v.val) - Get(v.prev_val)), v |-> v]

\* mutant: the rejected bounds are not taken back
ValueSetBoundsKeepNew(v, min_value, max_value) ==
    LET t == [v EXCEPT !.min_value = min_value, !.max_value = max_value]
    IN [ok |-> ValidateValue(t, v.val), v |-> t]

\* Value.set_bounds: the old bounds are restored when the current value fails
ValueSetBounds(v, min_value, max_value) ==
    LET t == [v EXCEPT !.min_value = min_value, !.max_value = max_value]
    IN IF ValidateValue(t, v.val) THEN [ok |-> TRUE, v |-> t]
       ELSE [ok |-> FALSE, v |-> v]

\* ValueStatus.from_input of a string: the member of that name
FromInput(status_input) ==
    IF status_input \in StatusSet THEN Some(status_input) ELSE NoneV

\* dict.get(key, default)
DictGet(data, key, default) == IF key \in DOMAIN data THEN data[key] ELSE default

\* Value.to_dict(include_private=False); no payload of the model is callable
ValueToDict(v) ==
    [value |-> v.val, dimension |-> v.value_spec.dimension, name |-> v.name,
     status |-> v.status, store_prev |-> v.store_prev,
     min_value |-> v.min_value, max_value |-> v.max_value,
     is_callable |-> FALSE]

\* Value.from_dict: err is "" when a Value is returned
ValueFromDict(data) ==
    IF ~({"value", "name", "value_spec"} \subseteq DOMAIN data)
    THEN [err |-> "ValueError", v |-> NoneV]
    ELSE LET value_spec == [value_name |-> data.value_spec.value_name,
                            physics_type |-> DictGet(data.value_spec, "physics_type", NoneV),
                            dimension |-> DictGet(data.value_spec, "dimension", NoneV)]
             status == FromInput(DictGet(data, "status", "UNKNOWN"))
             c == ValueInit(data.name, value_spec, data.value, Get(status),
                            DictGet(data, "store_prev", TRUE),
                            DictGet(data, "min_value", NoneV),
                            DictGet(data, "max_value", NoneV))
         IN IF IsNone(status) THEN [err |-> "ValueError", v |-> NoneV]
            ELSE IF ~c.ok THEN [err |-> "OutOfBounds", v |-> NoneV]
            ELSE [err |-> "", v |-> Some(c.v)]

\* ValueClass: (value_name, physics_type, dimension), compared structurally
SpecX == [value_name |-> "X", physics_type |-> "thermo", dimension |-> "kg"]
SpecY == [value_name |-> "Y", physics_type |-> "thermo", dimension |-> "kg"]
ValueClassSet == {SpecX, SpecY}

--------------------------------------------------------------------------
(* ObjectRepository.py *)

\* Python dicts
EmptyMap == [k \in {} |-> 0]
MapSet(m, k, v) == [x \in DOMAIN m \cup {k} |-> IF x = k THEN v ELSE m[x]]
MapPop(m, k) == [x \in DOMAIN m \ {k} |-> m[x]]
\* dict.get: None when the key is missing
MapGet(m, k) == IF k \in DOMAIN m THEN Some(m[k]) ELSE NoneV

\* The insertion-ordered dict id -> object, as the sequence of its items
ItemKeys(items) == {items[i][1] : i \in 1..Len(items)}
ItemGet(items, k) ==
    IF k \in ItemKeys(items)
    THEN Some(items[CHOOSE i \in 1..Len(items) : items[i][1] = k][2])
    ELSE NoneV
ItemPop(items, k) == SelectSeq(items, LAMBDA it : it[1] # k)

RepoKinds == {"value", "port", "element"}

\* ObjectRepository.__init__ (rep_type already lower case)
RepoInit(rep_type, postfix) ==
    [ok |-> rep_type \in RepoKinds,
     r  |-> [repository |-> <<>>, base_name_to_id |-> EmptyMap,
             id_to_base_name |-> EmptyMap, obj_to_id |-> EmptyMap,
             obj_list |-> <<>>, repository_type |-> rep_type,
             postfix |-> postfix]]

\* ObjectRepository._generate_full_name
GenerateFullName(r, base_name) ==
    IF ~IsNone(r.postfix) THEN base_name \o <<"_">> \o Get(r.postfix)
    ELSE base_name

\* ObjectRepository._extract_base_name
ExtractBaseName(r, name) ==
    IF Truthy(r.postfix) /\ EndsWith(name, <<"_">> \o Get(r.postfix))
    THEN SubSeq(name, 1, Len(name) - (Len(Get(r.postfix)) + 1))
    ELSE name

\* ObjectRepository._validate_object_type
ValidateObjectType(r, kind) == kind = r.repository_type

\* mutant: the name index is written before the explicit id is checked
RepoRegisterEarlyWrite(r, obj, name, kind, obj_id, fresh) ==
    IF ~ValidateObjectType(r, kind) THEN [err |-> "TypeMismatch", id |-> NoneV, r |-> r]
    ELSE IF HasUnderscore(name) THEN [err |-> "Underscore", id |-> NoneV, r |-> r]
    ELSE IF name \in DOMAIN r.base_name_to_id
         THEN [err |-> "DuplicateName", id |-> NoneV, r |-> r]
    ELSE LET new_id == IF IsNone(obj_id) THEN fresh ELSE Get(obj_id)
             w == [r EXCEPT !.base_name_to_id = MapSet(@, name, new_id)]
         IN IF ~IsNone(obj_id) /\ Get(obj_id) \in ItemKeys(r.repository)
            THEN [err |-> "DuplicateId", id |-> NoneV, r |-> w]
            ELSE [err |-> "", id |-> Some(new_id),
                  r |-> [w EXCEPT !.repository = Append(@, <<new_id, obj>>),
                                  !.id_to_base_name = MapSet(@, new_id, name),
                                  !.obj_to_id = MapSet(@, obj, new_id),
                                  !.obj_list = Append(@, <<new_id, obj>>)]]

\* ObjectRepository.register; fresh is the identifier uuid4() would return.
\* err: "" on success, else the error raised (TypeError for TypeMismatch,
\* ValueError for the others); id: the identifier the object was stored under
RepoRegister(r, obj, name, kind, obj_id, fresh) ==
    IF ~ValidateObjectType(r, kind) THEN [err |-> "TypeMismatch", id |-> NoneV, r |-> r]
    ELSE IF HasUnderscore(name) THEN [err |-> "Underscore", id |-> NoneV, r |-> r]
    ELSE IF name \in DOMAIN r.base_name_to_id
         THEN [err |-> "DuplicateName", id |-> NoneV, r |-> r]
    ELSE IF ~IsNone(obj_id) /\ Get(obj_id) \in ItemKeys(r.repository)
         THEN [err |-> "DuplicateId", id |-> NoneV, r |-> r]
    ELSE LET new_id == IF IsNone(obj_id) THEN fresh ELSE Get(obj_id)
         IN [err |-> "", id |-> Some(new_id),
             r |-> [r EXCEPT !.repository = Append(@, <<new_id, obj>>),
                             !.base_name_to_id = MapSet(@, name, new_id),
                             !.id_to_base_name = MapSet(@, new_id, name),
                             !.obj_to_id = MapSet(@, obj, new_id),
                             !.obj_list = Append(@, <<new_id, obj>>)]]

\* ObjectRepository.get_by_id
GetById(r, obj_id) == ItemGet(r.repository, obj_id)

\* ObjectRepository.get_by_name (an identifier is never falsy)
GetByName(r, name) ==
    LET obj_id == MapGet(r.base_name_to_id, ExtractBaseName(r, name))
    IN IF IsNone(obj_id) THEN NoneV ELSE ItemGet(r.repository, Get(obj_id))

\* ObjectRepository.get_by_object
GetByObject(r, obj) ==
    LET obj_id == MapGet(r.obj_to_id, obj)
    IN IF IsNone(obj_id) THEN NoneV ELSE ItemGet(r.repository, Get(obj_id))

\* An identifier argument: a UUID or a string
Uuid(i) == [t |-> "uuid", v |-> i]
Str(s) == [t |-> "str", v |-> s]

\* mutant: remove leaves the entry of the object in _obj_to_id
RepoRemoveKeepObject(r, identifier) ==
    LET base_name == IF identifier.t = "uuid"
                     THEN MapGet(r.id_to_base_name, identifier.v)
                     ELSE Some(ExtractBaseName(r, identifier.v))
        obj_id == IF identifier.t = "uuid" THEN Some(identifier.v)
                  ELSE MapGet(r.base_name_to_id, Get(base_name))
    IN IF IsNone(obj_id) \/ ~Truthy(base_name) THEN r
       ELSE [r EXCEPT !.repository = ItemPop(@, Get(obj_id)),
                      !.base_name_to_id = MapPop(@, Get(base_name)),
                      !.id_to_base_name = MapPop(@, Get(obj_id))]

\* ObjectRepository.remove: "if not obj_id or not base_name: return" is false
\* for a missing entry and also for the empty base name
RepoRemove(r, identifier) ==
    LET base_name == IF identifier.t = "uuid"
                     THEN MapGet(r.id_to_base_name, identifier.v)
                     ELSE Some(ExtractBaseName(r, identifier.v))
        obj_id == IF identifier.t = "uuid" THEN Some(identifier.v)
                  ELSE MapGet(r.base_name_to_id, Get(base_name))
    IN IF IsNone(obj_id) \/ ~Truthy(base_name) THEN r
       ELSE LET obj == Get(ItemGet(r.repository, Get(obj_id)))
            IN [r EXCEPT !.repository = ItemPop(@, Get(obj_id)),
                         !.base_name_to_id = MapPop(@, Get(base_name)),
                         !.id_to_base_name = MapPop(@, Get(obj_id)),
                         !.obj_to_id = MapPop(@, obj)]

\* ObjectRepository.__iter__ / items(): the objects in registration order
RepoObjects(r) == [i \in 1..Len(r.repository) |-> r.repository[i][2]]

--------------------------------------------------------------------------
(* Port.py, Element.py: construction *)

\* register the objects of items (records [obj, name, kind, id]) in order;
\* ok is FALSE as soon as one registration raises
RECURSIVE RegisterAll(_, _)
RegisterAll(r, items) ==
    IF Len(items) = 0 THEN [ok |-> TRUE, r |-> r]
    ELSE LET it == Head(items)
             one == RepoRegister(r, it.obj, it.name, it.kind, NoneV, it.id)
         IN IF one.err # "" THEN [ok |-> FALSE, r |-> one.r]
            ELSE RegisterAll(one.r, Tail(items))

\* Port.__init__ / Port.add_value: the Values are registered in the port's
\* repository in the order given.  Port.py names the repository's suffix
\* argument prefix and its register method register_element; the port is
\* modelled with the suffix absent (the default) and with register.
PortInit(name, items) ==
    LET reg == RegisterAll(RepoInit("value", NoneV).r, items)
    IN [ok |-> reg.ok, p |-> [name |-> name, values |-> reg.r]]

\* Port.__iter__: the Values of the port in registration order
PortValues(port) == RepoObjects(port.values)

\* Element.__init__: three repositories with the element's name as postfix
ElementInit(name, in_items, out_items, param_items) ==
    LET i == RegisterAll(RepoInit("port", Some(name)).r, in_items)
        o == RegisterAll(RepoInit("port", Some(name)).r, out_items)
        q == RegisterAll(RepoInit("value", Some(name)).r, param_items)
    IN [ok |-> i.ok /\ o.ok /\ q.ok,
        e  |-> [name |-> name, in_ports |-> i.r, out_ports |-> o.r,
                parameters |-> q.r]]

\* mutant: reset_fixed is not consulted, a FIXED Value is reset like the others
RECURSIVE ResetValuesAll(_, _, _)
ResetValuesAll(objs, heap, reset_fixed) ==
    IF Len(objs) = 0 THEN [ok |-> TRUE, vals |-> heap]
    ELSE LET value == heap[Head(objs)]
         IN IF value.status \in {"CALCULATED", "DEPEND", "FIXED"}
            THEN LET r == ValueUpdate(value, value.val, Some("UNKNOWN"))
                 IN IF ~r.ok THEN [ok |-> FALSE, vals |-> heap]
                    ELSE ResetValuesAll(Tail(objs),
                                        [heap EXCEPT ![Head(objs)] = r.v], reset_fixed)
            ELSE ResetValuesAll(Tail(objs), heap, reset_fixed)

\* Port.reset, the loop over the Values of the port: a Value to reset is
\* updated with its own payload and status UNKNOWN
RECURSIVE ResetValues(_, _, _)
ResetValues(objs, heap, reset_fixed) ==
    IF Len(objs) = 0 THEN [ok |-> TRUE, vals |-> heap]
    ELSE LET value == heap[Head(objs)]
         IN IF \/ value.status \in {"CALCULATED", "DEPEND"}
               \/ reset_fixed /\ value.status = "FIXED"
            THEN LET r == ValueUpdate(value, value.val, Some("UNKNOWN"))
                 IN IF ~r.ok THEN [ok |-> FALSE, vals |-> heap]
                    ELSE ResetValues(Tail(objs),
                                     [heap EXCEPT ![Head(objs)] = r.v], reset_fixed)
            ELSE ResetValues(Tail(objs), heap, reset_fixed)

\* Port.reset
PortReset(port, heap, reset_fixed) == ResetValues(PortValues(port), heap, reset_fixed)

\* Port.reset_by_names: a named Value to reset is updated with None and
\* status UNKNOWN; a name the port does not hold is skipped
RECURSIVE PortResetByNames(_, _, _, _)
PortResetByNames(port, heap, names, reset_fixed) ==
    IF Len(names) = 0 THEN [ok |-> TRUE, vals |-> heap]
    ELSE LET found == GetByName(port.values, Head(names))
         IN IF IsNone(found) THEN PortResetByNames(port, heap, Tail(names), reset_fixed)
            ELSE LET value == heap[Get(found)]
                 IN IF \/ value.status \in {"CALCULATED", "DEPEND"}
                       \/ reset_fixed /\ value.status = "FIXED"
                    THEN LET r == ValueUpdate(value, NoneV, Some("UNKNOWN"))
                         IN IF ~r.ok THEN [ok |-> FALSE, vals |-> heap]
                            ELSE PortResetByNames(port,
                                    [heap EXCEPT ![Get(found)] = r.v],
                                    Tail(names), reset_fixed)
                    ELSE PortResetByNames(port, heap, Tail(names), reset_fixed)

--------------------------------------------------------------------------
(* Connection.py *)

\* Connection._collect_by_spec over a heap of Values: the dict
\* ValueClass -> list of Values, as the sequence of its items in insertion
\* order (the order in which the specs first appear in the port)
RECURSIVE CollectInto(_, _, _)
CollectInto(grouped, objs, heap) ==
    IF Len(objs) = 0 THEN grouped
    ELSE LET v == Head(objs)
             spec == heap[v].value_spec
             at == {k \in 1..Len(grouped) : grouped[k].spec = spec}
         IN CollectInto(
              IF at = {} THEN Append(grouped, [spec |-> spec, list |-> <<v>>])
              ELSE [grouped EXCEPT ![CHOOSE k \in at : TRUE].list = Append(@, v)],
              Tail(objs), heap)
CollectBySpec(port, heap) == CollectInto(<<>>, PortValues(port), heap)

GroupKeys(grouped) == {grouped[k].spec : k \in 1..Len(grouped)}
GroupList(grouped, spec) ==
    grouped[CHOOSE k \in 1..Len(grouped) : grouped[k].spec = spec].list

\* the outcome of validate: res is "" when it returns True
Verdict(res, only_in, only_out) == [res |-> res, only_in |-> only_in, only_out |-> only_out]

\* mutant: both "only at" sets are computed as in-specs minus out-specs
ValidatePortsSameDiff(out_port, in_port, heap) ==
    LET out_specs == CollectBySpec(out_port, heap)
        in_specs == CollectBySpec(in_port, heap)
    IN IF GroupKeys(out_specs) # GroupKeys(in_specs)
       THEN Verdict("IncompatibleSpecSet",
                    GroupKeys(in_specs) \ GroupKeys(out_specs),
                    GroupKeys(in_specs) \ GroupKeys(out_specs))
       ELSE IF \E k \in 1..Len(out_specs) :
                   Len(out_specs[k].list) # Len(GroupList(in_specs, out_specs[k].spec))
            THEN Verdict("MultiplicityMismatch", {}, {})
            ELSE Verdict("", {}, {})

\* mutant: only the sets of specs are compared, not the multiplicities
ValidatePortsNoCount(out_port, in_port, heap) ==
    LET out_specs == CollectBySpec(out_port, heap)
        in_specs == CollectBySpec(in_port, heap)
    IN IF GroupKeys(out_specs) # GroupKeys(in_specs)
       THEN Verdict("IncompatibleSpecSet",
                    GroupKeys(in_specs) \ GroupKeys(out_specs),
                    GroupKeys(out_specs) \ GroupKeys(in_specs))
       ELSE Verdict("", {}, {})

\* Connection.validate, lines 63-83: the comparison of two resolved ports.
\* only_in is the message's "only at the input" (missing_out), only_out its
\* "only at the output" (missing_in)
ValidatePorts(out_port, in_port, heap) ==
    LET out_specs == CollectBySpec(out_port, heap)
        in_specs == CollectBySpec(in_port, heap)
    IN IF GroupKeys(out_specs) # GroupKeys(in_specs)
       THEN Verdict("IncompatibleSpecSet",
                    GroupKeys(in_specs) \ GroupKeys(out_specs),
                    GroupKeys(out_specs) \ GroupKeys(in_specs))
       ELSE IF \E k \in 1..Len(out_specs) :
                   Len(out_specs[k].list) # Len(GroupList(in_specs, out_specs[k].spec))
            THEN Verdict("MultiplicityMismatch", {}, {})
            ELSE Verdict("", {}, {})

\* mutant: the ports are looked up among all ports of the element
\* (Element.get_port_by_id) instead of by direction
ConnValidateAnyDirection(c, element_repo, elemHeap, portHeap, heap) ==
    LET out_elem == GetById(element_repo, c.out_elem_id)
        in_elem == GetById(element_repo, c.in_elem_id)
    IN IF IsNone(out_elem) \/ IsNone(in_elem)
       THEN Verdict("DanglingReference", {}, {})
       ELSE LET oe == elemHeap[Get(out_elem)]
                ie == elemHeap[Get(in_elem)]
                o1 == GetById(oe.out_ports, c.out_port_id)
                o2 == GetById(oe.in_ports, c.out_port_id)
                i1 == GetById(ie.in_ports, c.in_port_id)
                i2 == GetById(ie.out_ports, c.in_port_id)
                out_port == IF IsNone(o1) THEN o2 ELSE o1
                in_port == IF IsNone(i1) THEN i2 ELSE i1
            IN IF IsNone(out_port) \/ IsNone(in_port)
               THEN Verdict("DanglingReference", {}, {})
               ELSE ValidatePorts(portHeap[Get(out_port)], portHeap[Get(in_port)], heap)

\* Connection.validate: the verdict before raise_error decides between
\* raising it and returning False
ConnValidate(c, element_repo, elemHeap, portHeap, heap) ==
    LET out_elem == GetById(element_repo, c.out_elem_id)
        in_elem == GetById(element_repo, c.in_elem_id)
    IN IF IsNone(out_elem) \/ IsNone(in_elem)
       THEN Verdict("DanglingReference", {}, {})
       ELSE LET out_port == GetById(elemHeap[Get(out_elem)].out_ports, c.out_port_id)
                in_port == GetById(elemHeap[Get(in_elem)].in_ports, c.in_port_id)
            IN IF IsNone(out_port) \/ IsNone(in_port)
               THEN Verdict("DanglingReference", {}, {})
               ELSE ValidatePorts(portHeap[Get(out_port)], portHeap[Get(in_port)], heap)

\* Connection.__init__
ConnInit(out_elem_id, out_port_id, in_elem_id, in_port_id, name) ==
    [name |-> name, out_elem_id |-> out_elem_id, out_port_id |-> out_port_id,
     in_elem_id |-> in_elem_id, in_port_id |-> in_port_id]

Authoritative == {"CALCULATED", "FIXED"}

\* the (v_out, v_in) pairs in the order propagate visits them: the shared
\* specs in the iteration order of the set out_specs.keys() & in_specs.keys()
\* (order lists every spec once, in that order), and for each spec
\* zip(out_list, in_list)
RECURSIVE PairsInOrder(_, _, _)
PairsInOrder(order, out_specs, in_specs) ==
    IF Len(order) = 0 THEN <<>>
    ELSE LET spec == Head(order)
             rest == PairsInOrder(Tail(order), out_specs, in_specs)
         IN IF spec \in GroupKeys(out_specs) \cap GroupKeys(in_specs)
            THEN LET out_list == GroupList(out_specs, spec)
                     in_list == GroupList(in_specs, spec)
                     n == IF Len(out_list) < Len(in_list) THEN Len(out_list)
                          ELSE Len(in_list)
                 IN [k \in 1..n |-> <<out_list[k], in_list[k]>>] \o rest
            ELSE rest

\* the result of the loop: ok = FALSE when an update raised, heap as the
\* loop left it, updates the number of update calls that returned
Outcome(ok, heap, updates) == [ok |-> ok, vals |-> heap, updates |-> updates]

\* mutant: the source overwrites the destination whatever its status
RECURSIVE PropagatePairsUngated(_, _, _)
PropagatePairsUngated(pairs, heap, updates) ==
    IF Len(pairs) = 0 THEN Outcome(TRUE, heap, updates)
    ELSE LET v_out == Head(pairs)[1]
             v_in == Head(pairs)[2]
         IN IF heap[v_out].status \in Authoritative
            THEN LET r == ValueUpdate(heap[v_in], heap[v_out].val, Some("DEPEND"))
                 IN IF ~r.ok THEN Outcome(FALSE, heap, updates)
                    ELSE PropagatePairsUngated(Tail(pairs),
                                        [heap EXCEPT ![v_in] = r.v], updates + 1)
            ELSE IF heap[v_in].status \in Authoritative
                    /\ heap[v_out].status = "DEPEND"
            THEN LET r == ValueUpdate(heap[v_out], heap[v_in].val, Some("DEPEND"))
                 IN IF ~r.ok THEN Outcome(FALSE, heap, updates)
                    ELSE PropagatePairsUngated(Tail(pairs),
                                        [heap EXCEPT ![v_out] = r.v], updates + 1)
            ELSE PropagatePairsUngated(Tail(pairs), heap, updates)

\* mutant: the receiver takes the status of the giver with its payload
RECURSIVE PropagatePairsCarryStatus(_, _, _)
PropagatePairsCarryStatus(pairs, heap, updates) ==
    IF Len(pairs) = 0 THEN Outcome(TRUE, heap, updates)
    ELSE LET v_out == Head(pairs)[1]
             v_in == Head(pairs)[2]
         IN IF heap[v_out].status \in Authoritative
               /\ heap[v_in].status = "DEPEND"
            THEN LET r == ValueUpdate(heap[v_in], heap[v_out].val,
                                      Some(heap[v_out].status))
                 IN IF ~r.ok THEN Outcome(FALSE, heap, updates)
                    ELSE PropagatePairsCarryStatus(Tail(pairs),
                                        [heap EXCEPT ![v_in] = r.v], updates + 1)
            ELSE IF heap[v_in].status \in Authoritative
                    /\ heap[v_out].status = "DEPEND"
            THEN LET r == ValueUpdate(heap[v_out], heap[v_in].val,
                                      Some(heap[v_in].status))
                 IN IF ~r.ok THEN Outcome(FALSE, heap, updates)
                    ELSE PropagatePairsCarryStatus(Tail(pairs),
                                        [heap EXCEPT ![v_out] = r.v], updates + 1)
            ELSE PropagatePairsCarryStatus(Tail(pairs), heap, updates)

\* Connection.propagate, lines 105-110: the loop over the pairs; an update
\* that raises ends the loop and leaves the earlier updates in place
RECURSIVE PropagatePairs(_, _, _)
PropagatePairs(pairs, heap, updates) ==
    IF Len(pairs) = 0 THEN Outcome(TRUE, heap, updates)
    ELSE LET v_out == Head(pairs)[1]
             v_in == Head(pairs)[2]
         IN IF heap[v_out].status \in Authoritative
               /\ heap[v_in].status = "DEPEND"
            THEN LET r == ValueUpdate(heap[v_in], heap[v_out].val, Some("DEPEND"))
                 IN IF ~r.ok THEN Outcome(FALSE, heap, updates)
                    ELSE PropagatePairs(Tail(pairs),
                                        [heap EXCEPT ![v_in] = r.v], updates + 1)
            ELSE IF heap[v_in].status \in Authoritative
                    /\ heap[v_out].status = "DEPEND"
            THEN LET r == ValueUpdate(heap[v_out], heap[v_in].val, Some("DEPEND"))
                 IN IF ~r.ok THEN Outcome(FALSE, heap, updates)
                    ELSE PropagatePairs(Tail(pairs),
                                        [heap EXCEPT ![v_out] = r.v], updates + 1)
            ELSE PropagatePairs(Tail(pairs), heap, updates)

\* Connection.propagate on a connection whose ends resolve
ConnPropagate(c, element_repo, elemHeap, portHeap, heap, order) ==
    LET out_elem == Get(GetById(element_repo, c.out_elem_id))
        in_elem == Get(GetById(element_repo, c.in_elem_id))
        out_port == Get(GetById(elemHeap[out_elem].out_ports, c.out_port_id))
        in_port == Get(GetById(elemHeap[in_elem].in_ports, c.in_port_id))
        out_specs == CollectBySpec(portHeap[out_port], heap)
        in_specs == CollectBySpec(portHeap[in_port], heap)
    IN PropagatePairs(PairsInOrder(order, out_specs, in_specs), heap, 0)

--------------------------------------------------------------------------
(* Values of the variables a specification does not use *)

NoRepo == RepoInit("value", NoneV).r
NoConn == [name |-> "", out_elem_id |-> 0, out_port_id |-> 0,
           in_elem_id |-> 0, in_port_id |-> 0]
NoScheme == <<>>

--------------------------------------------------------------------------
(* ElementProxy.py, Scheme.py: construction of the graph *)

\* Element.__init__ with its behaviour hooks: calculate_func and
\* update_int_conn_func are TRUE when a function is injected.  groups is
\* what get_internal_connection_groups_ids() returns, a list of lists of
\* port ids.
ElementInitFull(name, in_items, out_items, param_items, calculate_func, update_int_conn_func, groups) ==
    LET c == ElementInit(name, in_items, out_items, param_items)
    IN [ok |-> c.ok,
        e  |-> [name |-> c.e.name, in_ports |-> c.e.in_ports,
                out_ports |-> c.e.out_ports, parameters |-> c.e.parameters,
                calculate_func |-> calculate_func,
                update_int_conn_func |-> update_int_conn_func,
                groups |-> groups]]

\* element.get_internal_connection_groups_ids()
InternalGroups(element) == element.groups

\* PortsProxy.add(port) on the proxy of one port repository of an element:
\* ok is FALSE when register raised (False is returned, or the error
\* re-raised when raise_exception is set)
PortsProxyAdd(r, port, name, id) ==
    LET reg == RepoRegister(r, port, name, "port", NoneV, id)
    IN [ok |-> reg.err = "", err |-> reg.err, r |-> reg.r]

\* str(n) of the f-string in _gen_connection_name
Digits == <<"0", "1", "2", "3", "4", "5", "6", "7", "8", "9">>
RECURSIVE Decimal(_)
Decimal(n) ==
    IF n < 10 THEN <<Digits[n + 1]>>
    ELSE Decimal(n \div 10) \o <<Digits[(n % 10) + 1]>>

\* uuid.uuid4() in register, for a Connection
ConnId(c) == 400 + c

\* Scheme.__init__: ok is FALSE when a constructor of a repository raises
SchemeInit(name) ==
    LET e == RepoInit("element", NoneV)
        c == RepoInit("connection", NoneV)
    IN [ok |-> e.ok /\ c.ok,
        s  |-> [name |-> name, elements |-> e.r, connections |-> c.r,
                nodes |-> <<>>, edges |-> <<>>,
                port_index |-> EmptyMap, value_index |-> EmptyMap,
                conn_name_counter |-> 0]]

\* nx.DiGraph.add_node: the nodes keep their insertion order
AddNode(nodes, n) ==
    IF \E i \in 1..Len(nodes) : nodes[i] = n THEN nodes ELSE Append(nodes, n)
RECURSIVE AddNodes(_, _)
AddNodes(nodes, ns) ==
    IF Len(ns) = 0 THEN nodes ELSE AddNodes(AddNode(nodes, Head(ns)), Tail(ns))

\* nx.DiGraph.add_edge: one edge per (u, v); adding it again replaces its
\* attributes and keeps its place
Edge(u, v, internal, connection_id) ==
    [u |-> u, v |-> v, internal |-> internal, connection_id |-> connection_id]
AddEdge(edges, e) ==
    LET at == {i \in 1..Len(edges) : edges[i].u = e.u /\ edges[i].v = e.v}
    IN IF at = {} THEN Append(edges, e)
       ELSE [edges EXCEPT ![CHOOSE i \in at : TRUE] = e]
RECURSIVE AddEdges(_, _)
AddEdges(edges, es) ==
    IF Len(es) = 0 THEN edges ELSE AddEdges(AddEdge(edges, Head(es)), Tail(es))

\* G.edges(data=True): by source node in node order, then by insertion
RECURSIVE EdgesInOrder(_, _)
EdgesInOrder(nodes, edges) ==
    IF Len(nodes) = 0 THEN <<>>
    ELSE SelectSeq(edges, LAMBDA e : e.u = Head(nodes))
           \o EdgesInOrder(Tail(nodes), edges)

ItemKeySeq(items) == [i \in 1..Len(items) |-> items[i][1]]

\* the (vid, Value) items of the ports of a port repository, port by port
RECURSIVE PortValueItems(_, _)
PortValueItems(items, portHeap) ==
    IF Len(items) = 0 THEN <<>>
    ELSE portHeap[Head(items)[2]].values.repository
           \o PortValueItems(Tail(items), portHeap)

\* mutant: the internal edges run from the out-ports to the in-ports
RECURSIVE GroupEdgesReversed(_, _)
GroupEdgesReversed(groups, element) ==
    IF Len(groups) = 0 THEN <<>>
    ELSE LET group == Head(groups)
             in_ids == SelectSeq(group,
                          LAMBDA pid : pid \in ItemKeys(element.in_ports.repository))
             out_ids == SelectSeq(group,
                          LAMBDA pid : pid \in ItemKeys(element.out_ports.repository))
             n == Len(in_ids) * Len(out_ids)
         IN [k \in 1..n |->
                Edge(out_ids[((k - 1) % Len(out_ids)) + 1],
                     in_ids[((k - 1) \div Len(out_ids)) + 1], TRUE, NoneV)]
              \o GroupEdgesReversed(Tail(groups), element)

\* Scheme.add_element, lines 60-69: the internal edges of the groups, from
\* every in-port of a group to every out-port of it
RECURSIVE GroupEdges(_, _)
GroupEdges(groups, element) ==
    IF Len(groups) = 0 THEN <<>>
    ELSE LET group == Head(groups)
             in_ids == SelectSeq(group,
                          LAMBDA pid : pid \in ItemKeys(element.in_ports.repository))
             out_ids == SelectSeq(group,
                          LAMBDA pid : pid \in ItemKeys(element.out_ports.repository))
             n == Len(in_ids) * Len(out_ids)
         IN [k \in 1..n |->
                Edge(in_ids[((k - 1) \div Len(out_ids)) + 1],
                     out_ids[((k - 1) % Len(out_ids)) + 1], TRUE, NoneV)]
              \o GroupEdges(Tail(groups), element)

\* Scheme.add_element
SchemeAddElement(s, e, id, elemHeap, portHeap) ==
    LET element == elemHeap[e]
        reg == RepoRegister(s.elements, e, element.name, "element", NoneV, id)
        ins == element.in_ports.repository
        outs == element.out_ports.repository
        vitems == PortValueItems(ins, portHeap) \o PortValueItems(outs, portHeap)
                    \o element.parameters.repository
    IN IF reg.err # "" THEN [err |-> reg.err, id |-> NoneV, s |-> s]
       ELSE [err |-> "", id |-> reg.id,
             s |-> [s EXCEPT
                      !.elements = reg.r,
                      !.port_index =
                          [pid \in DOMAIN @ \cup ItemKeys(ins) \cup ItemKeys(outs) |->
                             IF pid \in ItemKeys(outs)
                             THEN [elem |-> e, port |-> Get(ItemGet(outs, pid)), kind |-> 1]
                             ELSE IF pid \in ItemKeys(ins)
                             THEN [elem |-> e, port |-> Get(ItemGet(ins, pid)), kind |-> 0]
                             ELSE @[pid]],
                      !.nodes = AddNodes(AddNodes(@, ItemKeySeq(ins)), ItemKeySeq(outs)),
                      !.value_index =
                          [vid \in DOMAIN @ \cup ItemKeys(vitems) |->
                             IF vid \in ItemKeys(vitems)
                             THEN Get(ItemGet(vitems, vid)) ELSE @[vid]],
                      !.edges = AddEdges(@, GroupEdges(InternalGroups(element), element))]]

\* Scheme._connection_name_taken
ConnectionNameTaken(s, nm, connHeap) ==
    \E i \in 1..Len(s.connections.repository) :
       connHeap[s.connections.repository[i][2]].name = nm

\* Scheme._gen_connection_name: the counter after the loop
RECURSIVE GenConnectionCounter(_, _, _)
GenConnectionCounter(s, counter, connHeap) ==
    IF ~ConnectionNameTaken(s, <<"C">> \o Decimal(counter + 1), connHeap)
    THEN counter + 1
    ELSE GenConnectionCounter(s, counter + 1, connHeap)

\* Scheme.add_connection: c is the identity of the Connection object and
\* cn its fields; the name counter has advanced even when validate raises
SchemeAddConnection(s, c, cn, id, elemHeap, portHeap, heap, connHeap) ==
    LET counter == GenConnectionCounter(s, s.conn_name_counter, connHeap)
        named == [cn EXCEPT !.name = <<"C">> \o Decimal(counter)]
        s1 == [s EXCEPT !.conn_name_counter = counter]
        v == ConnValidate(named, s.elements, elemHeap, portHeap, heap)
        reg == RepoRegister(s.connections, c, named.name, "connection", NoneV, id)
    IN IF v.res # "" THEN [err |-> v.res, id |-> NoneV, s |-> s1, conn |-> named]
       ELSE IF reg.err # "" THEN [err |-> reg.err, id |-> NoneV, s |-> s1, conn |-> named]
       ELSE [err |-> "", id |-> reg.id, conn |-> named,
             s |-> [s1 EXCEPT
                      !.connections = reg.r,
                      !.nodes = AddNode(AddNode(@, named.out_port_id), named.in_port_id),
                      !.edges = AddEdge(@, Edge(named.out_port_id, named.in_port_id,
                                                FALSE, reg.id))]]

\* Scheme.connect_ids
SchemeConnectIds(s, c, id, out_elem_id, out_port_id, in_elem_id, in_port_id, elemHeap, portHeap, heap, connHeap) ==
    SchemeAddConnection(s, c,
        ConnInit(out_elem_id, out_port_id, in_elem_id, in_port_id, <<"c">>),
        id, elemHeap, portHeap, heap, connHeap)

\* the truth value of `if p:` for p a Port or None: Port defines __len__,
\* so a port without Values is false
PortTruthy(optPort, portHeap) ==
    ~IsNone(optPort) /\ Len(portHeap[Get(optPort)].values.repository) > 0

\* the loop `for pid, pobj in repo.items(): if pobj is p: return pid`
PidOfObject(items, obj) ==
    items[CHOOSE i \in 1..Len(items) :
             /\ items[i][2] = obj
             /\ \A j \in 1..(i - 1) : items[j][2] # obj][1]

Resolved(err, pid) == [err |-> err, pid |-> pid]

\* Scheme._resolve_port_id: port is Uuid(pid) or Str(name), expect_kind is
\* None, Some(0) for an in-port or Some(1) for an out-port
SchemeResolvePortId(element, port, expect_kind, portHeap) ==
    IF port.t = "uuid"
    THEN LET is_in == ~IsNone(GetById(element.in_ports, port.v))
             is_out == ~IsNone(GetById(element.out_ports, port.v))
             actual == IF is_in THEN 0 ELSE 1
         IN IF ~(is_in \/ is_out) THEN Resolved("KeyError", NoneV)
            ELSE IF ~IsNone(expect_kind) /\ actual # Get(expect_kind)
            THEN Resolved("ValueError", NoneV)
            ELSE Resolved("", Some(port.v))
    ELSE LET p_in == GetByName(element.in_ports, port.v)
             p_out == GetByName(element.out_ports, port.v)
         IN IF PortTruthy(p_in, portHeap)
            THEN IF expect_kind \in {NoneV, Some(0)}
                 THEN Resolved("", Some(PidOfObject(element.in_ports.repository,
                                                    Get(p_in))))
                 ELSE Resolved("ValueError", NoneV)
            ELSE IF PortTruthy(p_out, portHeap)
            THEN IF expect_kind \in {NoneV, Some(1)}
                 THEN Resolved("", Some(PidOfObject(element.out_ports.repository,
                                                    Get(p_out))))
                 ELSE Resolved("ValueError", NoneV)
            ELSE Resolved("KeyError", NoneV)

\* Scheme._find_element_id: None stands for the KeyError
SchemeFindElementId(s, e) ==
    LET at == {i \in 1..Len(s.elements.repository) : s.elements.repository[i][2] = e}
    IN IF at = {} THEN NoneV ELSE Some(s.elements.repository[CHOOSE i \in at : TRUE][1])

\* Scheme.connect: both references are resolved, then both elements are
\* looked up, then connect_ids runs
SchemeConnect(s, c, id, src_elem, src_port, dst_elem, dst_port, elemHeap, portHeap, heap, connHeap) ==
    LET src_pid == SchemeResolvePortId(elemHeap[src_elem], src_port, Some(1), portHeap)
        dst_pid == SchemeResolvePortId(elemHeap[dst_elem], dst_port, Some(0), portHeap)
        src_elem_id == SchemeFindElementId(s, src_elem)
        dst_elem_id == SchemeFindElementId(s, dst_elem)
    IN IF src_pid.err # ""
       THEN [err |-> src_pid.err, id |-> NoneV, s |-> s, conn |-> NoConn]
       ELSE IF dst_pid.err # ""
       THEN [err |-> dst_pid.err, id |-> NoneV, s |-> s, conn |-> NoConn]
       ELSE IF IsNone(src_elem_id) \/ IsNone(dst_elem_id)
       THEN [err |-> "KeyError", id |-> NoneV, s |-> s, conn |-> NoConn]
       ELSE SchemeConnectIds(s, c, id, Get(src_elem_id), Get(src_pid.pid),
                             Get(dst_elem_id), Get(dst_pid.pid),
                             elemHeap, portHeap, heap, connHeap)

--------------------------------------------------------------------------
(* Scheme.py: propagation and calculation order *)

\* Port.get_value by name.  It delegates to a get_object method of the
\* repository that the sources do not define; modelled, as described, as the
\* lookup of the Value registered under that name.
PortGetValue(port, name) == GetByName(port.values, name)

\* ObjectRepository.registered_base_names
RegisteredBaseNames(r) ==
    [i \in 1..Len(r.repository) |-> r.id_to_base_name[r.repository[i][1]]]

\* one half of the tuple of node_status_summary_for_edge: (name, status)
\* of every Value of the port
StatusSummary(port, heap) ==
    LET names == RegisteredBaseNames(port.values)
    IN [i \in 1..Len(names) |->
          <<names[i], heap[Get(PortGetValue(port, names[i]))].status>>]

\* Scheme.node_status_summary_for_edge; ok is FALSE for the KeyError of a
\* port identifier the port index does not hold
NodeStatusSummaryForEdge(s, u, v, portHeap, heap) ==
    IF u \notin DOMAIN s.port_index \/ v \notin DOMAIN s.port_index
    THEN [ok |-> FALSE, t |-> <<>>]
    ELSE [ok |-> TRUE,
          t |-> <<StatusSummary(portHeap[s.port_index[u].port], heap),
                  StatusSummary(portHeap[s.port_index[v].port], heap)>>]

Moved(err, heap, moved) == [err |-> err, vals |-> heap, moved |-> moved]

\* the loop of Scheme._propagate_port_to_port over the Values of port_from
RECURSIVE PortToPortLoop(_, _, _, _)
PortToPortLoop(srcs, port_to, heap, cnt) ==
    IF Len(srcs) = 0 THEN Moved("", heap, cnt)
    ELSE LET v_src == Head(srcs)
             v_dst == PortGetValue(port_to, heap[v_src].name)
         IN IF IsNone(v_dst) THEN PortToPortLoop(Tail(srcs), port_to, heap, cnt)
            ELSE IF heap[v_src].status \in Authoritative
                    /\ heap[Get(v_dst)].status = "DEPEND"
            THEN LET r == ValueUpdate(heap[Get(v_dst)], heap[v_src].val, Some("DEPEND"))
                 IN IF ~r.ok THEN Moved("OutOfBounds", heap, cnt)
                    ELSE PortToPortLoop(Tail(srcs), port_to,
                                        [heap EXCEPT ![Get(v_dst)] = r.v], cnt + 1)
            ELSE PortToPortLoop(Tail(srcs), port_to, heap, cnt)

\* Scheme._propagate_port_to_port
PropagatePortToPort(s, pid_from, pid_to, portHeap, heap) ==
    IF pid_from \notin DOMAIN s.port_index \/ pid_to \notin DOMAIN s.port_index
    THEN Moved("KeyError", heap, 0)
    ELSE PortToPortLoop(PortValues(portHeap[s.port_index[pid_from].port]),
                        portHeap[s.port_index[pid_to].port], heap, 0)

\* the body of the loop of propagate_known_values for one external edge
PropagateEdge(s, e, both_directions, elemHeap, portHeap, heap, connHeap, order) ==
    LET connection == IF IsNone(e.connection_id) THEN NoneV
                ELSE GetById(s.connections, Get(e.connection_id))
    IN IF ~IsNone(connection)
       THEN LET before == NodeStatusSummaryForEdge(s, e.u, e.v, portHeap, heap)
                r == ConnPropagate(connHeap[Get(connection)], s.elements, elemHeap,
                                   portHeap, heap, order)
                after == NodeStatusSummaryForEdge(s, e.u, e.v, portHeap, r.vals)
            IN IF ~before.ok THEN Moved("KeyError", heap, 0)
               ELSE IF ~r.ok THEN Moved("OutOfBounds", r.vals, 0)
               ELSE Moved("", r.vals, IF before.t # after.t THEN 1 ELSE 0)
       ELSE LET f == PropagatePortToPort(s, e.u, e.v, portHeap, heap)
                b == PropagatePortToPort(s, e.v, e.u, portHeap, f.vals)
            IN IF f.err # "" \/ ~both_directions THEN f
               ELSE Moved(b.err, b.vals, f.moved + b.moved)

RECURSIVE PropagateEdges(_, _, _, _, _, _, _, _, _)
PropagateEdges(s, es, both_directions, elemHeap, portHeap, heap, connHeap, order, moved) ==
    IF Len(es) = 0 THEN Moved("", heap, moved)
    ELSE IF Head(es).internal
    THEN PropagateEdges(s, Tail(es), both_directions, elemHeap, portHeap, heap,
                        connHeap, order, moved)
    ELSE LET r == PropagateEdge(s, Head(es), both_directions, elemHeap,
                                portHeap, heap, connHeap, order)
         IN IF r.err # "" THEN Moved(r.err, r.vals, moved)
            ELSE PropagateEdges(s, Tail(es), both_directions, elemHeap, portHeap,
                                r.vals, connHeap, order, moved + r.moved)

\* Scheme.propagate_known_values: one pass over G.edges
SchemePropagateKnownValues(s, both_directions, elemHeap, portHeap, heap, connHeap, order) ==
    PropagateEdges(s, EdgesInOrder(s.nodes, s.edges), both_directions, elemHeap,
                   portHeap, heap, connHeap, order, 0)

\* nx.DiGraph.add_edge of the element graph: one edge per ordered pair
RECURSIVE DagAddEdges(_, _)
DagAddEdges(acc, es) ==
    IF Len(es) = 0 THEN acc
    ELSE DagAddEdges(IF \E i \in 1..Len(acc) : acc[i] = Head(es)
                     THEN acc ELSE Append(acc, Head(es)), Tail(es))

\* Scheme._elements_dag: the elements in registration order and the external
\* edges projected on their owning elements; ok is FALSE for the KeyError of
\* a port identifier the port index does not hold
ElementsDag(s) ==
    LET items == s.elements.repository
        ext == SelectSeq(EdgesInOrder(s.nodes, s.edges), LAMBDA e : ~e.internal)
        indexed == \A i \in 1..Len(ext) :
                      ext[i].u \in DOMAIN s.port_index /\ ext[i].v \in DOMAIN s.port_index
        proj == [i \in 1..Len(ext) |->
                   <<s.port_index[ext[i].u].elem, s.port_index[ext[i].v].elem>>]
    IN IF ~indexed THEN [ok |-> FALSE, nodes |-> <<>>, edges |-> <<>>]
       ELSE [ok |-> TRUE,
             nodes |-> [i \in 1..Len(items) |-> items[i][2]],
             edges |-> DagAddEdges(<<>>, SelectSeq(proj, LAMBDA p : p[1] # p[2]))]

\* G.in_degree of a node
InDegree(dag, n) == Cardinality({i \in 1..Len(dag.edges) : dag.edges[i][2] = n})

\* G.neighbors(node) in the order of insertion
Neighbors(dag, n) ==
    LET out == SelectSeq(dag.edges, LAMBDA p : p[1] = n)
    IN [i \in 1..Len(out) |-> out[i][2]]

\* the inner loop of topological_generations over the children of a node
RECURSIVE VisitChildren(_, _, _)
VisitChildren(children, indegree_map, zero_indegree) ==
    IF Len(children) = 0
    THEN [indegree_map |-> indegree_map, zero_indegree |-> zero_indegree]
    ELSE LET child == Head(children)
             d == indegree_map[child] - 1
         IN VisitChildren(Tail(children),
                          [indegree_map EXCEPT ![child] = d],
                          IF d = 0 THEN Append(zero_indegree, child)
                          ELSE zero_indegree)

\* the loop over the nodes of one generation
RECURSIVE VisitGeneration(_, _, _, _)
VisitGeneration(dag, this_generation, indegree_map, zero_indegree) ==
    IF Len(this_generation) = 0
    THEN [indegree_map |-> indegree_map, zero_indegree |-> zero_indegree]
    ELSE LET r == VisitChildren(Neighbors(dag, Head(this_generation)),
                                indegree_map, zero_indegree)
         IN VisitGeneration(dag, Tail(this_generation), r.indegree_map,
                            r.zero_indegree)

RECURSIVE Generations(_, _, _, _)
Generations(dag, zero_indegree, indegree_map, sorted) ==
    IF Len(zero_indegree) = 0
    THEN [ok |-> \A n \in DOMAIN indegree_map : indegree_map[n] = 0,
          order |-> sorted]
    ELSE LET r == VisitGeneration(dag, zero_indegree, indegree_map, <<>>)
         IN Generations(dag, r.zero_indegree, r.indegree_map,
                        sorted \o zero_indegree)

\* mutant: the nodes are listed as registered, whatever the edges
TopologicalSortAsRegistered(dag) == [ok |-> TRUE, order |-> dag.nodes]

\* mutant: the nodes without a predecessor are taken last-registered first
TopologicalSortReversedTies(dag) ==
    LET indegree_map == [i \in {dag.nodes[k] : k \in 1..Len(dag.nodes)} |->
                            InDegree(dag, i)]
        zero == SelectSeq(dag.nodes, LAMBDA n : indegree_map[n] = 0)
    IN Generations(dag, [i \in 1..Len(zero) |-> zero[Len(zero) + 1 - i]],
                   indegree_map, <<>>)

\* mutant: a cycle is not reported, the nodes sorted so far are the order
TopologicalSortPartial(dag) ==
    LET indegree_map == [i \in {dag.nodes[k] : k \in 1..Len(dag.nodes)} |->
                            InDegree(dag, i)]
    IN [ok |-> TRUE,
        order |-> Generations(dag, SelectSeq(dag.nodes, LAMBDA n : indegree_map[n] = 0),
                              indegree_map, <<>>).order]

\* list(nx.topological_sort(dag)): the generations of Kahn's algorithm, each
\* in the order its nodes became free; ok is FALSE for NetworkXUnfeasible
TopologicalSort(dag) ==
    LET indegree_map == [i \in {dag.nodes[k] : k \in 1..Len(dag.nodes)} |->
                            InDegree(dag, i)]
    IN Generations(dag, SelectSeq(dag.nodes, LAMBDA n : indegree_map[n] = 0),
                   indegree_map, <<>>)

\* the function injected as calculate_func in the elements of the model:
\* it sets every parameter of the element to payload 1, CALCULATED (the
\* parameters of the model carry no bounds, the update is accepted)
RECURSIVE CalculateFunc(_, _)
CalculateFunc(params, heap) ==
    IF Len(params) = 0 THEN heap
    ELSE CalculateFunc(Tail(params),
            [heap EXCEPT ![Head(params)] =
                ValueUpdate(@, Some(1), Some("CALCULATED")).v])

\* the function injected as update_int_conn_func in the elements of the
\* model: it marks every parameter of the element DEPEND, keeping the payload
RECURSIVE UpdateIntConnFunc(_, _)
UpdateIntConnFunc(params, heap) ==
    IF Len(params) = 0 THEN heap
    ELSE UpdateIntConnFunc(Tail(params),
            [heap EXCEPT ![Head(params)] =
                ValueUpdate(@, @.val, Some("DEPEND")).v])

Hooked(err, heap) == [err |-> err, vals |-> heap]

\* mutant: calculate without a hook returns silently
ElementCalculateSilent(element, heap) ==
    IF element.calculate_func
    THEN Hooked("", CalculateFunc(RepoObjects(element.parameters), heap))
    ELSE Hooked("", heap)

\* Element.calculate
ElementCalculate(element, heap) ==
    IF element.calculate_func
    THEN Hooked("", CalculateFunc(RepoObjects(element.parameters), heap))
    ELSE Hooked("NotImplementedError", heap)

\* Element.update_internal_connections
ElementUpdateInternalConnections(element, heap) ==
    IF element.update_int_conn_func
    THEN Hooked("", UpdateIntConnFunc(RepoObjects(element.parameters), heap))
    ELSE Hooked("NotImplementedError", heap)

\* calls lists the elements whose calculate was invoked, steps every call
\* the driver made, in order
Ran(err, heap, calls, steps) ==
    [err |-> err, vals |-> heap, calls |-> calls, steps |-> steps]

Step(what, e) == <<what, e>>

\* mutant: the propagation pass of an element runs before its
\* update_internal_connections
RECURSIVE RunElementsPropagateFirst(_, _, _, _, _, _, _, _, _, _)
RunElementsPropagateFirst(s, todo, propagate_each_step, elemHeap, portHeap, heap, connHeap, order, calls, steps) ==
    IF Len(todo) = 0 THEN Ran("", heap, calls, steps)
    ELSE LET elem == Head(todo)
             called == Append(calls, elem)
             c == ElementCalculate(elemHeap[elem], heap)
             p == IF propagate_each_step
                  THEN SchemePropagateKnownValues(s, TRUE, elemHeap, portHeap,
                                                  c.vals, connHeap, order)
                  ELSE Moved("", c.vals, 0)
             u == ElementUpdateInternalConnections(elemHeap[elem], p.vals)
             s1 == Append(steps, Step("calculate", elem))
             s2 == IF propagate_each_step
                   THEN Append(s1, Step("propagate_known_values", 0)) ELSE s1
             s3 == Append(s2, Step("update_internal_connections", elem))
         IN IF c.err \notin {"", "NotImplementedError"}
            THEN Ran(c.err, c.vals, called, s1)
            ELSE IF p.err # "" THEN Ran(p.err, p.vals, called, s2)
            ELSE IF u.err # "" THEN Ran(u.err, u.vals, called, s3)
            ELSE RunElementsPropagateFirst(s, Tail(todo), propagate_each_step, elemHeap,
                                           portHeap, u.vals, connHeap, order, called, s3)

\* the loop of run_calculations.  The NotImplementedError of calculate is
\* caught; update_internal_connections is a method of every Element, so the
\* getattr test passes and its NotImplementedError is not caught.
RECURSIVE RunElements(_, _, _, _, _, _, _, _, _, _)
RunElements(s, todo, propagate_each_step, elemHeap, portHeap, heap, connHeap, order, calls, steps) ==
    IF Len(todo) = 0 THEN Ran("", heap, calls, steps)
    ELSE LET elem == Head(todo)
             called == Append(calls, elem)
             c == ElementCalculate(elemHeap[elem], heap)
             u == ElementUpdateInternalConnections(elemHeap[elem], c.vals)
             p == IF propagate_each_step
                  THEN SchemePropagateKnownValues(s, TRUE, elemHeap, portHeap,
                                                  u.vals, connHeap, order)
                  ELSE Moved("", u.vals, 0)
             s1 == Append(steps, Step("calculate", elem))
             s2 == Append(s1, Step("update_internal_connections", elem))
             s3 == IF propagate_each_step
                   THEN Append(s2, Step("propagate_known_values", 0)) ELSE s2
         IN IF c.err \notin {"", "NotImplementedError"}
            THEN Ran(c.err, c.vals, called, s1)
            ELSE IF u.err # "" THEN Ran(u.err, u.vals, called, s2)
            ELSE IF p.err # "" THEN Ran(p.err, p.vals, called, s3)
            ELSE RunElements(s, Tail(todo), propagate_each_step, elemHeap,
                             portHeap, p.vals, connHeap, order, called, s3)

\* Scheme.run_calculations
SchemeRunCalculations(s, propagate_each_step, elemHeap, portHeap, heap, connHeap, order) ==
    LET dag == ElementsDag(s)
        sorted == TopologicalSort(dag)
        todo == IF sorted.ok THEN sorted.order ELSE dag.nodes
    IN IF ~dag.ok THEN Ran("KeyError", heap, <<>>, <<>>)
       ELSE RunElements(s, todo, propagate_each_step, elemHeap, portHeap, heap,
                        connHeap, order, <<>>, <<>>)

--------------------------------------------------------------------------
(* SpecValue: one Value, constructed by Value.__init__ and then driven     *)
(* through update and set_bounds with every argument of the bounded sets. *)

TheValue == 1

InitValue ==
    /\ \E value \in OptPayload, status \in StatusSet, store_prev \in BOOLEAN,
          min_value \in OptPayload, max_value \in OptPayload :
          LET c == ValueInit(<<"G">>, SpecX, value, status, store_prev,
                             min_value, max_value)
          IN /\ c.ok
             /\ vals = [o \in {TheValue} |-> c.v]
    /\ ports = EmptyMap
    /\ elems = EmptyMap
    /\ repo = NoRepo
    /\ erepo = NoRepo
    /\ conn = NoConn
    /\ hashOrder = <<>>
    /\ nextId = 0
    /\ scheme = NoScheme
    /\ conns = EmptyMap
    /\ last = NoCall

\* v.update(new_value, new_status)
Update(o, new_value, new_status) ==
    LET r == ValueUpdate(vals[o], new_value, new_status)
    IN /\ vals' = [vals EXCEPT ![o] = r.v]
       /\ last' = Call("update", IF r.ok THEN "" ELSE "OutOfBounds", o, NoneV)
       /\ UNCHANGED <<ports, elems, repo, erepo, conn, hashOrder, nextId, scheme, conns>>

\* v.set_bounds(min_value, max_value)
SetBounds(o, min_value, max_value) ==
    LET r == ValueSetBounds(vals[o], min_value, max_value)
    IN /\ vals' = [vals EXCEPT ![o] = r.v]
       /\ last' = Call("set_bounds", IF r.ok THEN "" ELSE "OutOfBounds", o, NoneV)
       /\ UNCHANGED <<ports, elems, repo, erepo, conn, hashOrder, nextId, scheme, conns>>

\* Value.from_dict(vals[o].to_dict()); info holds the Value returned
RoundTrip(o) ==
    \E r \in {ValueFromDict(ValueToDict(vals[o]))} :
       /\ last' = CallInfo("from_dict", r.err, o, NoneV, r.v)
       /\ UNCHANGED <<vals, ports, elems, repo, erepo, conn, hashOrder, nextId,
                      scheme, conns>>

\* v.get_residual(); id holds the value returned
GetResidual(o) ==
    \E r \in {ValueGetResidual(vals[o])} :
       /\ vals' = [vals EXCEPT ![o] = r.v]
       /\ last' = Call("get_residual", r.err, o, r.res)
       /\ UNCHANGED <<ports, elems, repo, erepo, conn, hashOrder, nextId, scheme, conns>>

NextValue ==
    \/ \E p \in OptPayload, s \in OptStatus : Update(TheValue, p, s)
    \/ \E mn \in OptPayload, mx \in OptPayload : SetBounds(TheValue, mn, mx)
    \/ RoundTrip(TheValue)
    \/ GetResidual(TheValue)

SpecValue == InitValue /\ [][NextValue]_vars

\* the payload lies outside the bounds of v
OutOfBounds(v, p) ==
    /\ ~IsNone(p)
    /\ \/ ~IsNone(v.min_value) /\ Get(p) < Get(v.min_value)
       \/ ~IsNone(v.max_value) /\ Get(p) > Get(v.max_value)

\* C1: an update whose non-absent payload violates the min or the max bound
\* reports the out-of-bounds error and leaves payload, status, previous
\* payload and previous status as they were.
C1_FailedUpdateLeavesValue ==
    [][\A p \in OptPayload, s \in OptStatus :
          (Update(TheValue, p, s) /\ OutOfBounds(vals[TheValue], p))
          => /\ last'.res = "OutOfBounds"
             /\ vals'[TheValue].val = vals[TheValue].val
             /\ vals'[TheValue].status = vals[TheValue].status
             /\ vals'[TheValue].prev_val = vals[TheValue].prev_val
             /\ vals'[TheValue].prev_status = vals[TheValue].prev_status]_vars

\* a rejected update of a Value that keeps history and whose history slot
\* differs from its current state
C1_Witness ==
    /\ last.op = "update"
    /\ last.res = "OutOfBounds"
    /\ vals[TheValue].store_prev
    /\ vals[TheValue].prev_val # vals[TheValue].val
    /\ vals[TheValue].prev_status # Some(vals[TheValue].status)

--------------------------------------------------------------------------
(* SpecRepo: one ObjectRepository and a pool of objects to register; each  *)
(* object has a name and a class.  The repository is created with every    *)
(* postfix of PostfixSet and then driven through register and remove.      *)

\* The objects offered to register: obj.name and type(obj).__name__.lower()
ObjTable ==
    << [name |-> <<"G">>, kind |-> "value"],
       [name |-> <<"G">>, kind |-> "value"],
       [name |-> <<>>, kind |-> "value"],
       [name |-> <<"H">>, kind |-> "port"],
       [name |-> <<"G", "_", "E">>, kind |-> "value"] >>
ObjSet == 1..Len(ObjTable)

\* postfix: None, the empty string, "E"
PostfixSet == {NoneV, Some(<<>>), Some(<<"E">>)}

\* identifiers a caller passes explicitly
ExplicitIds == {101}
\* the identifier uuid4() returns next: one never seen before
FreshId == nextId + 1

\* names a caller looks up or removes: base names, full names, unknown names
NameSet ==
    {ObjTable[o].name : o \in ObjSet}
    \cup {ObjTable[o].name \o <<"_">> \o Get(px) : o \in ObjSet, px \in PostfixSet \ {NoneV}}
    \cup {<<"Z">>}

InitRepo ==
    /\ \E rep_type \in {"value", "port"}, postfix \in PostfixSet :
          /\ RepoInit(rep_type, postfix).ok
          /\ repo = RepoInit(rep_type, postfix).r
    /\ vals = EmptyMap
    /\ ports = EmptyMap
    /\ elems = EmptyMap
    /\ erepo = NoRepo
    /\ conn = NoConn
    /\ hashOrder = <<>>
    /\ nextId = 0
    /\ scheme = NoScheme
    /\ conns = EmptyMap
    /\ last = NoCall

\* repo.register(obj, obj_id)
Register(o, obj_id) ==
    LET r == RepoRegister(repo, o, ObjTable[o].name, ObjTable[o].kind, obj_id, FreshId)
        drawn == r.err = "" /\ IsNone(obj_id)
    IN /\ r.err = "" => Len(repo.obj_list) < MaxRegs
       /\ repo' = r.r
       /\ nextId' = IF drawn THEN nextId + 1 ELSE nextId
       /\ last' = Call("register", r.err, o, r.id)
       /\ UNCHANGED <<vals, ports, elems, erepo, conn, hashOrder, scheme, conns>>

\* repo.remove(identifier)
Remove(identifier) ==
    /\ repo' = RepoRemove(repo, identifier)
    /\ last' = Call("remove", "", 0, IF identifier.t = "uuid" THEN Some(identifier.v) ELSE NoneV)
    /\ UNCHANGED <<vals, ports, elems, erepo, conn, hashOrder, nextId, scheme, conns>>

KnownIds == ExplicitIds \cup 1..nextId

NextRepo ==
    \/ \E o \in ObjSet, obj_id \in {NoneV} \cup {Some(i) : i \in KnownIds} :
          Register(o, obj_id)
    \/ \E i \in KnownIds : Remove(Uuid(i))
    \/ \E n \in NameSet : Remove(Str(n))

SpecRepo == InitRepo /\ [][NextRepo]_vars

\* C6: register fails when the base name is already present, when an
\* explicit id is already in use, or when the object's kind is not the
\* repository's; the error is the one of the first failing check, and every
\* index of the repository is left as it was.
C6_FailedRegisterLeavesRepo ==
    [][\A o \in ObjSet, obj_id \in {NoneV} \cup {Some(i) : i \in KnownIds} :
          LET dupName == ObjTable[o].name \in DOMAIN repo.base_name_to_id
              dupId == ~IsNone(obj_id) /\ Get(obj_id) \in ItemKeys(repo.repository)
              badKind == ObjTable[o].kind # repo.repository_type
          IN (Register(o, obj_id) /\ (dupName \/ dupId \/ badKind))
             => /\ last'.res \in {"DuplicateName", "DuplicateId", "TypeMismatch", "Underscore"}
                /\ badKind => last'.res = "TypeMismatch"
                /\ (dupName /\ ~badKind) => last'.res = "DuplicateName"
                /\ (dupId /\ ~dupName /\ ~badKind /\ ~HasUnderscore(ObjTable[o].name))
                      => last'.res = "DuplicateId"
                /\ repo'.repository = repo.repository
                /\ repo'.base_name_to_id = repo.base_name_to_id
                /\ repo'.id_to_base_name = repo.id_to_base_name
                /\ repo'.obj_to_id = repo.obj_to_id
                /\ repo'.obj_list = repo.obj_list]_vars

\* a register rejected for its explicit id only, on a repository that holds objects
C6_Witness ==
    /\ last.op = "register"
    /\ last.res = "DuplicateId"
    /\ Len(repo.repository) > 0
    /\ ObjTable[last.obj].name \notin DOMAIN repo.base_name_to_id

\* C5: after register(x) and then remove(x's id), get_by_id, get_by_name and
\* get_by_object return None for x and an object of the same base name can
\* be registered.
C5_RemovePurges ==
    [][\A i \in KnownIds :
          (Remove(Uuid(i)) /\ last.op = "register" /\ last.res = "" /\ last.id = Some(i))
          => LET x == last.obj
             IN /\ IsNone(GetById(repo', i))
                /\ IsNone(GetByName(repo', ObjTable[x].name))
                /\ IsNone(GetByObject(repo', x))
                /\ \A y \in ObjSet :
                      (ObjTable[y].name = ObjTable[x].name /\ ObjTable[y].kind = ObjTable[x].kind)
                      => RepoRegister(repo', y, ObjTable[y].name, ObjTable[y].kind,
                                      NoneV, FreshId).err = ""]_vars

\* C7: in a repository with a postfix, every registered object is returned
\* by get_by_name for its base name and for its full name.
C7_BaseAndFullNameResolve ==
    ~IsNone(repo.postfix) =>
        \A k \in 1..Len(repo.repository) :
            LET obj == repo.repository[k][2]
                b == repo.id_to_base_name[repo.repository[k][1]]
            IN /\ GetByName(repo, b) = Some(obj)
               /\ GetByName(repo, GenerateFullName(repo, b)) = Some(obj)

\* the identifier or the name designates no registered object
Absent(identifier) ==
    IF identifier.t = "uuid" THEN identifier.v \notin ItemKeys(repo.repository)
    ELSE ExtractBaseName(repo, identifier.v) \notin DOMAIN repo.base_name_to_id

\* C35: the indices of the repository agree: id -> object, id -> base name
\* and object -> id hold the same entries, base name -> id is the inverse of
\* id -> base name, no two registered objects share an id or a base name,
\* and remove of an absent id or name changes nothing.
C35_IndicesAgree ==
    /\ [](LET items == repo.repository
              ids == ItemKeys(items)
          IN /\ DOMAIN repo.id_to_base_name = ids
             /\ {repo.obj_to_id[o] : o \in DOMAIN repo.obj_to_id} = ids
             /\ DOMAIN repo.obj_to_id = {items[k][2] : k \in 1..Len(items)}
             /\ \A k \in 1..Len(items) : repo.obj_to_id[items[k][2]] = items[k][1]
             /\ {repo.base_name_to_id[n] : n \in DOMAIN repo.base_name_to_id} = ids
             /\ \A n \in DOMAIN repo.base_name_to_id :
                   repo.id_to_base_name[repo.base_name_to_id[n]] = n
             /\ \A i \in ids : repo.base_name_to_id[repo.id_to_base_name[i]] = i
             /\ \A k \in 1..Len(items), l \in 1..Len(items) :
                   k # l => /\ items[k][1] # items[l][1]
                            /\ items[k][2] # items[l][2]
                            /\ repo.id_to_base_name[items[k][1]]
                                 # repo.id_to_base_name[items[l][1]])
    /\ [][/\ \A i \in KnownIds :
                (Absent(Uuid(i)) /\ Remove(Uuid(i))) => repo' = repo
          /\ \A n \in NameSet :
                (Absent(Str(n)) /\ Remove(Str(n))) => repo' = repo]_vars

\* two objects were registered, one with an explicit id, and one of them
\* has been removed
C35_Witness ==
    /\ last.op = "remove"
    /\ Len(repo.obj_list) = 2 /\ Len(repo.repository) = 1
    /\ repo.obj_list[1][1] \in ExplicitIds
    /\ DOMAIN repo.base_name_to_id = {<<"G">>}

\* ObjectRepository.size, lines 81-83
RepoSize(r) == Len(r.repository)

\* ObjectRepository.__getitem__ with an int, lines 128-140: the entry of
\* _obj_list at the position (0-based), a pair (obj_id, obj); KeyError when
\* the list is shorter
RepoGetItem(r, identifier) ==
    IF identifier + 1 \in 1..Len(r.obj_list)
    THEN [err |-> "", obj |-> Some(r.obj_list[identifier + 1])]
    ELSE [err |-> "KeyError", obj |-> NoneV]

\* C36: positional lookup returns currently registered objects only: every
\* index below size yields a registered object, and no index yields an
\* object that has been removed.
C36_PositionalLookupRegistered ==
    /\ \A i \in 0..(RepoSize(repo) - 1) : RepoGetItem(repo, i).err = ""
    /\ \A i \in 0..MaxRegs :
          RepoGetItem(repo, i).err = ""
             => Get(RepoGetItem(repo, i).obj)[2] \in DOMAIN repo.obj_to_id

--------------------------------------------------------------------------
(* A scheme fragment: element A with out-port P and in-port I, element B   *)
(* with in-port Q and out-port O, both registered in an element            *)
(* repository, and one Connection.  Object identities: the Values of P are *)
(* 1, 2, ..., those of Q are 11, 12, ..., I holds Value 21 and O Value 31. *)

\* uuid.uuid4() in register: a distinct identifier per registered object
ValueId(o) == 100 + o
PortId(p) == 200 + p
ElemId(e) == 300 + e

PortP == 1
PortQ == 2
PortI == 3
PortO == 4
ElemA == 1
ElemB == 2
InBase == 10

\* the name of the i-th Value of a port: i copies of one letter
ValueName(letter, i) == [k \in 1..i |-> letter]

ValueItems(objs, heap) ==
    [k \in 1..Len(objs) |->
        [obj |-> objs[k], name |-> heap[objs[k]].name, kind |-> "value",
         id |-> ValueId(objs[k])]]
PortItem(p, name) == [obj |-> p, name |-> name, kind |-> "port", id |-> PortId(p)]
ElemItem(e, name) == [obj |-> e, name |-> name, kind |-> "element", id |-> ElemId(e)]

PlainValue(name, spec) ==
    ValueInit(name, spec, NoneV, "UNKNOWN", TRUE, NoneV, NoneV).v

\* the heap of the Values of P (outVals), Q (inVals), I and O
WorldHeap(outVals, inVals) ==
    [o \in (1..Len(outVals)) \cup {InBase + j : j \in 1..Len(inVals)}
             \cup {21, 31} |->
        IF o = 21 THEN PlainValue(<<"i">>, SpecX)
        ELSE IF o = 31 THEN PlainValue(<<"o">>, SpecX)
        ELSE IF o > InBase THEN inVals[o - InBase] ELSE outVals[o]]

\* the heaps after constructing the Values, the four ports, the two
\* elements and the element repository; ok is FALSE when a constructor raises
World(outVals, inVals) ==
    LET heap == WorldHeap(outVals, inVals)
        P == PortInit(<<"P">>, ValueItems([k \in 1..Len(outVals) |-> k], heap))
        Q == PortInit(<<"Q">>, ValueItems([k \in 1..Len(inVals) |-> InBase + k], heap))
        I == PortInit(<<"I">>, ValueItems(<<21>>, heap))
        O == PortInit(<<"O">>, ValueItems(<<31>>, heap))
        A == ElementInit(<<"A">>, <<PortItem(PortI, <<"I">>)>>,
                         <<PortItem(PortP, <<"P">>)>>, <<>>)
        B == ElementInit(<<"B">>, <<PortItem(PortQ, <<"Q">>)>>,
                         <<PortItem(PortO, <<"O">>)>>, <<>>)
        E == RegisterAll(RepoInit("element", NoneV).r,
                         <<ElemItem(ElemA, <<"A">>), ElemItem(ElemB, <<"B">>)>>)
    IN [ok |-> P.ok /\ Q.ok /\ I.ok /\ O.ok /\ A.ok /\ B.ok /\ E.ok,
        vals |-> heap,
        ports |-> [p \in {PortP, PortQ, PortI, PortO} |->
                     IF p = PortP THEN P.p ELSE IF p = PortQ THEN Q.p
                     ELSE IF p = PortI THEN I.p ELSE O.p],
        elems |-> [e \in {ElemA, ElemB} |-> IF e = ElemA THEN A.e ELSE B.e],
        erepo |-> E.r]

--------------------------------------------------------------------------
(* SpecValidate: the fragment with every content of P and Q up to          *)
(* MaxPortVals Values over two specs, equal or different Value names on    *)
(* the two sides, and a Connection whose ends are right, of the wrong      *)
(* direction, of the other element, or unknown; validate is called with    *)
(* both settings of raise_error.                                           *)

PortShapes == UNION {[1..n -> ValueClassSet] : n \in 0..MaxPortVals}

Missing == 9
\* (element id, port id) pairs for the source and the destination end
OutEnds == {<<ElemId(ElemA), PortId(PortP)>>, <<ElemId(ElemA), PortId(PortI)>>,
            <<ElemId(ElemA), PortId(Missing)>>, <<ElemId(ElemB), PortId(PortP)>>,
            <<ElemId(Missing), PortId(PortP)>>}
InEnds == {<<ElemId(ElemB), PortId(PortQ)>>, <<ElemId(ElemB), PortId(PortO)>>,
           <<ElemId(ElemB), PortId(Missing)>>, <<ElemId(ElemA), PortId(PortQ)>>,
           <<ElemId(Missing), PortId(PortQ)>>}

InitValidate ==
    /\ \E outShape \in PortShapes, inShape \in PortShapes,
          inLetter \in {"a", "b"}, oe \in OutEnds, ie \in InEnds :
          LET w == World([k \in 1..Len(outShape) |->
                             PlainValue(ValueName("a", k), outShape[k])],
                         [k \in 1..Len(inShape) |->
                             PlainValue(ValueName(inLetter, k), inShape[k])])
          IN /\ w.ok
             /\ vals = w.vals
             /\ ports = w.ports
             /\ elems = w.elems
             /\ erepo = w.erepo
             /\ conn = ConnInit(oe[1], oe[2], ie[1], ie[2], "c1")
    /\ repo = NoRepo
    /\ hashOrder = <<>>
    /\ nextId = 0
    /\ scheme = NoScheme
    /\ conns = EmptyMap
    /\ last = NoCall

\* conn.validate(erepo, raise_error): res is "" for True, "False" for a
\* returned False, and the kind of the ValueError when it is raised; obj
\* records raise_error and info what the message of the error names
Validate(raise_error) ==
    LET v == ConnValidate(conn, erepo, elems, ports, vals)
    IN /\ last' = CallInfo("validate",
                           IF v.res = "" THEN ""
                           ELSE IF raise_error THEN v.res ELSE "False",
                           IF raise_error THEN 1 ELSE 0, NoneV,
                           IF raise_error THEN Some(v) ELSE NoneV)
       /\ UNCHANGED <<vals, ports, elems, repo, erepo, conn, hashOrder, nextId, scheme, conns>>

NextValidate == \E raise_error \in BOOLEAN : Validate(raise_error)

SpecValidate == InitValidate /\ [][NextValidate]_vars

\* both ends of conn name a registered element and a port of the right
\* direction of that element
Resolves ==
    /\ conn.out_elem_id = ElemId(ElemA) /\ conn.out_port_id = PortId(PortP)
    /\ conn.in_elem_id = ElemId(ElemB) /\ conn.in_port_id = PortId(PortQ)

\* the number of Values of a spec in a port
CountOf(p, spec) ==
    Cardinality({k \in 1..Len(PortValues(ports[p])) :
                    vals[PortValues(ports[p])[k]].value_spec = spec})
SpecsOf(p) == {spec \in ValueClassSet : CountOf(p, spec) > 0}
NamesOf(p) == {vals[PortValues(ports[p])[k]].name : k \in 1..Len(PortValues(ports[p]))}

\* C8: when both elements and both ports resolve, validate succeeds exactly
\* when P and Q carry the same set of specs and, for every spec, the same
\* number of Values, whatever the names of the Values are.
C8_ValidateIffSameSpecsAndCounts ==
    (last.op = "validate" /\ Resolves)
    => /\ last.res = ""
          <=> /\ SpecsOf(PortP) = SpecsOf(PortQ)
              /\ \A spec \in ValueClassSet :
                    CountOf(PortP, spec) = CountOf(PortQ, spec)
       /\ ( /\ last.obj = 1
            /\ SpecsOf(PortP) = SpecsOf(PortQ)
            /\ \E spec \in ValueClassSet :
                  CountOf(PortP, spec) # CountOf(PortQ, spec) )
          => last.res = "MultiplicityMismatch"

\* validate succeeded on two ports of two Values each, of both specs in
\* different orders and with no Value name in common
C8_Witness ==
    /\ last.op = "validate" /\ last.res = "" /\ Resolves
    /\ CountOf(PortP, SpecX) = 1 /\ CountOf(PortP, SpecY) = 1
    /\ vals[1].value_spec # vals[InBase + 1].value_spec
    /\ NamesOf(PortP) \cap NamesOf(PortQ) = {}

\* an end of conn that does not resolve: an element that is not registered,
\* a source port that is not an out-port of the source element, or a
\* destination port that is not an in-port of the destination element
Dangling ==
    \/ conn.out_elem_id \notin ItemKeys(erepo.repository)
    \/ conn.in_elem_id \notin ItemKeys(erepo.repository)
    \/ \E e \in DOMAIN elems :
          /\ GetById(erepo, conn.out_elem_id) = Some(e)
          /\ conn.out_port_id \notin ItemKeys(elems[e].out_ports.repository)
    \/ \E e \in DOMAIN elems :
          /\ GetById(erepo, conn.in_elem_id) = Some(e)
          /\ conn.in_port_id \notin ItemKeys(elems[e].in_ports.repository)

\* C9: validate fails with the dangling-reference error when an element is
\* not in the element repository, the source port is not among the source
\* element's out-ports or the destination port is not among the destination
\* element's in-ports; with raise_error false it returns False instead; and
\* no call of validate modifies an element, a port or a Value.
C9_DanglingReference ==
    [][\A raise_error \in BOOLEAN :
          Validate(raise_error)
          => /\ Dangling => last'.res = IF raise_error THEN "DanglingReference"
                                        ELSE "False"
             /\ ~Dangling => last'.res \notin {"DanglingReference"}
             /\ UNCHANGED <<vals, ports, elems, erepo, conn>>]_vars

\* validate raised the dangling-reference error for a source port that is
\* a port of the source element, but an in-port
C9_Witness ==
    /\ last.op = "validate" /\ last.res = "DanglingReference"
    /\ conn.out_elem_id = ElemId(ElemA) /\ conn.out_port_id = PortId(PortI)
    /\ conn.in_elem_id = ElemId(ElemB) /\ conn.in_port_id = PortId(PortQ)

\* C10: when validate reports a spec as present only on the output side of
\* (P, Q), validating the two contents swapped reports it as present only
\* on the input side, and the other way round.
C10_ReportSymmetric ==
    (last.op = "validate" /\ last.res = "IncompatibleSpecSet")
    => LET rep == Get(last.info)
           swapped == ValidatePorts(ports[PortQ], ports[PortP], vals)
       IN /\ swapped.res = "IncompatibleSpecSet"
          /\ \A spec \in ValueClassSet :
                /\ spec \in rep.only_out <=> spec \in swapped.only_in
                /\ spec \in rep.only_in <=> spec \in swapped.only_out

\* validate reported one spec only on the output side and none only on
\* the input side
C10_Witness ==
    /\ last.op = "validate" /\ last.res = "IncompatibleSpecSet"
    /\ Get(last.info).only_out = {SpecY}
    /\ Get(last.info).only_in = {}

--------------------------------------------------------------------------
(* SpecPropagate: the fragment with a validated Connection P -> Q.  P and  *)
(* Q hold one pair of Values, two pairs of one spec, or two pairs of two   *)
(* specs registered in opposite orders.  The Values of the pair of the     *)
(* first Value of P are constructed with every status, payload and upper   *)
(* bound of ValueArgs, the Values of the other pair with those of          *)
(* MoreArgs.  propagate is called again and again.                         *)

\* mate is the position in Q of the Value paired with the first Value of P
PropShapes == {[out |-> <<SpecX>>, in |-> <<SpecX>>, mate |-> 1],
               [out |-> <<SpecX, SpecX>>, in |-> <<SpecX, SpecX>>, mate |-> 1],
               [out |-> <<SpecX, SpecY>>, in |-> <<SpecY, SpecX>>, mate |-> 2]}

\* constructor arguments: only a Value that awaits a payload (DEPEND)
\* carries a bound, since no other Value is ever updated by propagate
BoundSet == {NoneV, Some(1)}
ValueArgs ==
    {a \in [status : StatusSet, value : OptPayload, max_value : BoundSet] :
        /\ a.max_value # NoneV => a.status = "DEPEND"
        /\ ValueInit(<<>>, SpecX, a.value, a.status, TRUE, NoneV, a.max_value).ok}
\* a giving Value with the largest payload, a receiving or unknown one empty
MoreArgs ==
    {a \in ValueArgs :
        a.value = IF a.status \in Authoritative THEN Some(MaxPayload) ELSE NoneV}

\* the iteration orders a set of ValueClass keys can have in one process
HashOrders == {<<SpecX, SpecY>>, <<SpecY, SpecX>>}

CallsCap == 2

InitPropagate ==
    /\ \E shape \in PropShapes :
          \* ports, elements and repositories do not depend on the payloads
          LET w == World([k \in 1..Len(shape.out) |->
                            PlainValue(ValueName("a", k), shape.out[k])],
                         [k \in 1..Len(shape.in) |->
                            PlainValue(ValueName("b", k), shape.in[k])])
              c == ConnInit(ElemId(ElemA), PortId(PortP), ElemId(ElemB),
                            PortId(PortQ), "c1")
          IN /\ w.ok
             /\ ConnValidate(c, w.erepo, w.elems, w.ports, w.vals).res = ""
             /\ ports = w.ports
             /\ elems = w.elems
             /\ erepo = w.erepo
             /\ conn = c
             /\ hashOrder \in IF SpecY \in {shape.out[k] : k \in 1..Len(shape.out)}
                              THEN HashOrders ELSE {<<SpecX, SpecY>>}
             /\ \E oa \in [1..Len(shape.out) -> ValueArgs],
                   ia \in [1..Len(shape.in) -> ValueArgs] :
                   /\ \A k \in 2..Len(shape.out) : oa[k] \in MoreArgs
                   /\ \A k \in 1..Len(shape.in) :
                         k # shape.mate => ia[k] \in MoreArgs
                   /\ vals = WorldHeap(
                            [k \in 1..Len(shape.out) |->
                               ValueInit(ValueName("a", k), shape.out[k], oa[k].value,
                                         oa[k].status, TRUE, NoneV, oa[k].max_value).v],
                            [k \in 1..Len(shape.in) |->
                               ValueInit(ValueName("b", k), shape.in[k], ia[k].value,
                                         ia[k].status, TRUE, NoneV, ia[k].max_value).v])
    /\ repo = NoRepo
    /\ nextId = 0
    /\ scheme = NoScheme
    /\ conns = EmptyMap
    /\ last = NoCall

\* conn.propagate(erepo): last records the error, the number of Values
\* whose status the call changed, the number of propagate calls so far (up
\* to CallsCap) and the number of updates the call made
Propagate ==
    \E r \in {ConnPropagate(conn, erepo, elems, ports, vals, hashOrder)} :
    LET n == IF last.op = "propagate" THEN Get(last.id) ELSE 0
    IN /\ vals' = r.vals
       /\ last' = CallInfo("propagate", IF r.ok THEN "" ELSE "OutOfBounds",
                           Cardinality({o \in DOMAIN vals :
                                           r.vals[o].status # vals[o].status}),
                           Some(IF n < CallsCap THEN n + 1 ELSE n),
                           Some(r.updates))
       /\ UNCHANGED <<ports, elems, repo, erepo, conn, hashOrder, nextId, scheme, conns>>

NextPropagate == Propagate

SpecPropagate == InitPropagate /\ [][NextPropagate]_vars

\* the position of the k-th Value of port p among the Values of its spec
RankIn(p, k) ==
    Cardinality({j \in 1..k : vals[PortValues(ports[p])[j]].value_spec
                                = vals[PortValues(ports[p])[k]].value_spec})
\* the pairs (src in P, dst in Q): same spec, same position among the
\* Values of that spec in registration order
PairSet ==
    {<<PortValues(ports[PortP])[a], PortValues(ports[PortQ])[b]>> :
        <<a, b>> \in {x \in (1..Len(PortValues(ports[PortP])))
                              \X (1..Len(PortValues(ports[PortQ]))) :
                        /\ vals[PortValues(ports[PortP])[x[1]]].value_spec
                             = vals[PortValues(ports[PortQ])[x[2]]].value_spec
                        /\ RankIn(PortP, x[1]) = RankIn(PortQ, x[2])}}

\* the receiving end of the pair and the giving end, when the statuses of
\* the pair call for a copy
Copies(src, dst) ==
    IF vals[src].status \in Authoritative /\ vals[dst].status = "DEPEND"
    THEN {<<src, dst>>}
    ELSE IF vals[dst].status \in Authoritative /\ vals[src].status = "DEPEND"
    THEN {<<dst, src>>}
    ELSE {}

\* the step changed nothing observable of the Value
Untouched(o) ==
    /\ vals'[o].val = vals[o].val
    /\ vals'[o].status = vals[o].status

\* the step gave the pair what the rule of propagate prescribes
RuleApplied(src, dst) ==
    /\ \A gr \in Copies(src, dst) :
          /\ vals'[gr[2]].val = vals[gr[1]].val
          /\ vals'[gr[2]].status = "DEPEND"
          /\ Untouched(gr[1])
    /\ Copies(src, dst) = {} => Untouched(src) /\ Untouched(dst)

\* the copy the pair calls for is rejected by the bounds of the receiver
Rejected(src, dst) ==
    \E gr \in Copies(src, dst) : OutOfBounds(vals[gr[2]], vals[gr[1]].val)

\* C2 as stated: every pair of a validated Connection gets what the rule
\* prescribes: the payload goes to a Depend end facing a Calculated or
\* Fixed end, which then has status Depend, and no other pair changes.
C2_EveryPairFollowsRule ==
    [][Propagate => \A pr \in PairSet : RuleApplied(pr[1], pr[2])]_vars

\* C2, amended: when no copy is rejected by the bounds of its receiver,
\* propagate returns and every pair gets what the rule prescribes.  When a
\* copy is rejected, propagate raises the out-of-bounds error: every pair
\* is then untouched or got what the rule prescribes, and some rejected
\* pair is untouched.
C2_PairsFollowRuleWithinBounds ==
    [][Propagate =>
          /\ (\A pr \in PairSet : ~Rejected(pr[1], pr[2]))
             => /\ last'.res = ""
                /\ \A pr \in PairSet : RuleApplied(pr[1], pr[2])
          /\ (\E pr \in PairSet : Rejected(pr[1], pr[2]))
             => /\ last'.res = "OutOfBounds"
                /\ \A pr \in PairSet :
                      \/ RuleApplied(pr[1], pr[2])
                      \/ Untouched(pr[1]) /\ Untouched(pr[2])
                /\ \E pr \in PairSet :
                      /\ Rejected(pr[1], pr[2])
                      /\ Untouched(pr[1]) /\ Untouched(pr[2])]_vars

\* the first propagate returned after copying forward in one pair and
\* backward in the other, the two specs being registered in opposite
\* orders in P and Q
C2_Witness ==
    /\ last.op = "propagate" /\ last.res = "" /\ last.id = Some(1)
    /\ last.info = Some(2)
    /\ 2 \in DOMAIN vals
    /\ vals[1].value_spec = SpecX /\ vals[InBase + 1].value_spec = SpecY
    /\ vals[1].status = "FIXED" /\ vals[InBase + 2].status = "DEPEND"
    /\ vals[InBase + 2].val = vals[1].val
    /\ vals[InBase + 2].prev_val # vals[1].val
    /\ vals[InBase + 1].status = "CALCULATED" /\ vals[2].status = "DEPEND"
    /\ vals[2].val = vals[InBase + 1].val
    /\ vals[2].prev_val # vals[InBase + 1].val

C4_RepeatIsNoOp ==
    [][(/\ last.op = "propagate" /\ last.res = ""
        /\ last.info # NoneV /\ Get(last.info) > 0
        /\ Propagate)
          => \A o \in DOMAIN vals :
                /\ vals'[o].val = vals[o].val
                /\ vals'[o].status = vals[o].status
                /\ vals'[o].prev_val = vals[o].prev_val
                /\ vals'[o].prev_status = vals[o].prev_status]_vars

C33_RejectedCopyCommitsNothing ==
    [][(Propagate /\ last'.res = "OutOfBounds")
          => \A o \in DOMAIN vals :
                /\ vals'[o].val = vals[o].val
                /\ vals'[o].status = vals[o].status
                /\ vals'[o].prev_val = vals[o].prev_val
                /\ vals'[o].prev_status = vals[o].prev_status]_vars

--------------------------------------------------------------------------
(* SpecPort: one port P of two Values, each constructed with every status, *)
(* payload and upper bound of ValueArgs, driven through reset and          *)
(* reset_by_names.                                                         *)

PortNames == {<<>>, <<ValueName("a", 1)>>, <<ValueName("a", 2), ValueName("a", 1)>>,
              <<ValueName("z", 1), ValueName("a", 2)>>}

InitPort ==
    /\ \E a1 \in ValueArgs, a2 \in ValueArgs :
          vals = [o \in {1, 2} |->
                    LET a == IF o = 1 THEN a1 ELSE a2
                    IN ValueInit(ValueName("a", o), SpecX, a.value, a.status, TRUE,
                                 NoneV, a.max_value).v]
    /\ \E P \in {PortInit(<<"P">>,
                          <<[obj |-> 1, name |-> ValueName("a", 1), kind |-> "value",
                             id |-> ValueId(1)],
                            [obj |-> 2, name |-> ValueName("a", 2), kind |-> "value",
                             id |-> ValueId(2)]>>)} :
          P.ok /\ ports = [p \in {PortP} |-> P.p]
    /\ elems = EmptyMap
    /\ repo = NoRepo
    /\ erepo = NoRepo
    /\ conn = NoConn
    /\ hashOrder = <<>>
    /\ nextId = 0
    /\ scheme = NoScheme
    /\ conns = EmptyMap
    /\ last = NoCall

\* ports[p].reset(reset_fixed); obj records reset_fixed
Reset(p, reset_fixed) ==
    \E r \in {PortReset(ports[p], vals, reset_fixed)} :
       /\ vals' = r.vals
       /\ last' = Call("reset", IF r.ok THEN "" ELSE "OutOfBounds",
                       IF reset_fixed THEN 1 ELSE 0, NoneV)
       /\ UNCHANGED <<ports, elems, repo, erepo, conn, hashOrder, nextId, scheme, conns>>

\* ports[p].reset_by_names(names, reset_fixed)
ResetByNames(p, names, reset_fixed) ==
    \E r \in {PortResetByNames(ports[p], vals, names, reset_fixed)} :
       /\ vals' = r.vals
       /\ last' = Call("reset_by_names", IF r.ok THEN "" ELSE "OutOfBounds",
                       IF reset_fixed THEN 1 ELSE 0, NoneV)
       /\ UNCHANGED <<ports, elems, repo, erepo, conn, hashOrder, nextId, scheme, conns>>

NextPort ==
    \/ \E reset_fixed \in BOOLEAN : Reset(PortP, reset_fixed)
    \/ \E names \in PortNames, reset_fixed \in BOOLEAN :
          ResetByNames(PortP, names, reset_fixed)

SpecPort == InitPort /\ [][NextPort]_vars

\* C11: reset(reset_fixed=False) changes neither payload nor status nor
\* history of a Value of the port whose status is FIXED or UNKNOWN.
C11_ResetKeepsFixedAndUnknown ==
    [][Reset(PortP, FALSE)
          => \A k \in 1..Len(PortValues(ports[PortP])) :
                LET o == PortValues(ports[PortP])[k]
                IN vals[o].status \in {"FIXED", "UNKNOWN"} => vals'[o] = vals[o]]_vars

\* reset(False) reset one Value of the port and left a FIXED one with a
\* payload alone
C11_Witness ==
    /\ last.op = "reset" /\ last.obj = 0
    /\ vals[1].status = "FIXED" /\ vals[1].val # NoneV
    /\ vals[2].status = "UNKNOWN" /\ vals[2].prev_status = Some("CALCULATED")

\* C12: after reset(reset_fixed), every Value of the port that was
\* CALCULATED or DEPEND, and every FIXED one when reset_fixed is true, has
\* status UNKNOWN and no payload.
C12_ResetClearsPayload ==
    [][\A reset_fixed \in BOOLEAN :
          Reset(PortP, reset_fixed)
          => \A k \in 1..Len(PortValues(ports[PortP])) :
                LET o == PortValues(ports[PortP])[k]
                IN (\/ vals[o].status \in {"CALCULATED", "DEPEND"}
                    \/ reset_fixed /\ vals[o].status = "FIXED")
                   => /\ vals'[o].status = "UNKNOWN"
                      /\ vals'[o].val = NoneV]_vars

--------------------------------------------------------------------------
(* SpecScheme: a Scheme and two Elements A and B, each with an in-port "I" *)
(* and an out-port "O" of one Value of SpecX, and a further port N named   *)
(* "O" that PortsProxy.add enters among the in-ports of B.  A has no       *)
(* calculate hook and one internal group from its in-port to its out-port; *)
(* the hooks of B are chosen at construction.  A connection joins a port   *)
(* of one element to a port of the other.  Scheme.__init__ as written      *)
(* raises ValueError (NewScheme, SchemeInit.ok); the methods of the class  *)
(* are checked on the object its assignments describe.                     *)

MaxConnects == 2

PortN == 5

SchemeValue(value, status) ==
    ValueInit(ValueName("x", 1), SpecX, value, status, TRUE, NoneV, NoneV).v

\* the Values of A.I, A.O, B.I, B.O and N
SchemeHeap ==
    [o \in 1..5 |->
        IF o = 2 THEN SchemeValue(Some(1), "FIXED")
        ELSE IF o = 4 THEN SchemeValue(Some(2), "CALCULATED")
        ELSE SchemeValue(NoneV, "DEPEND")]

SchemePortName(p) == IF p \in {PortI, PortQ} THEN <<"I">> ELSE <<"O">>

\* the Value object of each port: A.I, A.O, B.I, B.O, N
SchemePortValue(p) ==
    IF p = PortI THEN 1 ELSE IF p = PortP THEN 2 ELSE IF p = PortQ THEN 3
    ELSE IF p = PortO THEN 4 ELSE 5

SchemePorts ==
    [p \in {PortI, PortP, PortQ, PortO, PortN} |->
        PortInit(SchemePortName(p),
                 ValueItems(<<SchemePortValue(p)>>, SchemeHeap)).p]

\* the hooks injected in B: calculate_func, update_int_conn_func
HookCfgs == {<<TRUE, TRUE>>, <<TRUE, FALSE>>}

SchemeElems(cfg) ==
    [e \in {ElemA, ElemB} |->
        IF e = ElemA
        THEN ElementInitFull(<<"A">>, <<PortItem(PortI, <<"I">>)>>,
                             <<PortItem(PortP, <<"O">>)>>, <<>>, FALSE, TRUE,
                             <<<<PortId(PortI), PortId(PortP), PortId(PortQ)>>>>).e
        ELSE ElementInitFull(<<"B">>, <<PortItem(PortQ, <<"I">>)>>,
                             <<PortItem(PortO, <<"O">>)>>, <<>>, cfg[1], cfg[2],
                             <<>>).e]

InitScheme ==
    /\ vals = SchemeHeap
    /\ ports = SchemePorts
    /\ \E cfg \in HookCfgs : elems = SchemeElems(cfg)
    /\ repo = NoRepo
    /\ erepo = NoRepo
    /\ conn = NoConn
    /\ hashOrder = <<SpecX, SpecY>>
    /\ nextId = 0
    /\ scheme = SchemeInit(<<"S">>).s
    /\ conns = EmptyMap
    /\ last = NoCall

\* Scheme(name): the constructor raises, no object comes to exist
NewScheme ==
    /\ last' = Call("Scheme", IF SchemeInit(<<"S">>).ok THEN "" ELSE "ValueError",
                    0, NoneV)
    /\ UNCHANGED <<vals, ports, elems, repo, erepo, conn, hashOrder, nextId,
                   scheme, conns>>

\* scheme.add_element(e)
AddElement(e) ==
    \E r \in {SchemeAddElement(scheme, e, ElemId(e), elems, ports)} :
       /\ scheme' = r.s
       /\ last' = Call("add_element", r.err, e, r.id)
       /\ UNCHANGED <<vals, ports, elems, repo, erepo, conn, hashOrder, nextId, conns>>

\* PortsProxy(elems[e].in_ports).add(port)
AddPort(e, port) ==
    \E r \in {PortsProxyAdd(elems[e].in_ports, port, ports[port].name, PortId(port))} :
       /\ elems' = [elems EXCEPT ![e].in_ports = r.r]
       /\ last' = Call("add", r.err, port, NoneV)
       /\ UNCHANGED <<vals, ports, repo, erepo, conn, hashOrder, nextId, scheme, conns>>

\* the identity of the next Connection object
NextConn == Len(scheme.connections.repository) + 1

\* scheme.connect(src_elem, src_port, dst_elem, dst_port)
Connect(src_elem, src_port, dst_elem, dst_port) ==
    /\ scheme.conn_name_counter < MaxConnects
    /\ \E r \in {SchemeConnect(scheme, NextConn, ConnId(NextConn), src_elem, src_port,
                               dst_elem, dst_port, elems, ports, vals, conns)} :
          /\ scheme' = r.s
          /\ conns' = IF r.err = "" THEN MapSet(conns, NextConn, r.conn) ELSE conns
          /\ last' = Call("connect", r.err, 0, r.id)
    /\ UNCHANGED <<vals, ports, elems, repo, erepo, conn, hashOrder, nextId>>

\* scheme.connect_ids(out_elem_id, out_port_id, in_elem_id, in_port_id)
ConnectIds(out_elem_id, out_port_id, in_elem_id, in_port_id) ==
    /\ scheme.conn_name_counter < MaxConnects
    /\ \E r \in {SchemeConnectIds(scheme, NextConn, ConnId(NextConn), out_elem_id,
                                  out_port_id, in_elem_id, in_port_id,
                                  elems, ports, vals, conns)} :
          /\ scheme' = r.s
          /\ conns' = IF r.err = "" THEN MapSet(conns, NextConn, r.conn) ELSE conns
          /\ last' = Call("connect_ids", r.err, 0, r.id)
    /\ UNCHANGED <<vals, ports, elems, repo, erepo, conn, hashOrder, nextId>>

\* scheme.propagate_known_values(both_directions); obj records the result
PropagateKnownValues(both_directions) ==
    \E r \in {SchemePropagateKnownValues(scheme, both_directions, elems, ports,
                                         vals, conns, hashOrder)} :
       /\ vals' = r.vals
       /\ last' = Call("propagate_known_values", r.err, r.moved, NoneV)
       /\ UNCHANGED <<ports, elems, repo, erepo, conn, hashOrder, nextId, scheme, conns>>

\* scheme.run_calculations(propagate_each_step); info records the elements
\* whose calculate was invoked and the calls of the driver, in order
RunCalculations(propagate_each_step) ==
    \E r \in {SchemeRunCalculations(scheme, propagate_each_step, elems, ports,
                                    vals, conns, hashOrder)} :
       /\ vals' = r.vals
       /\ last' = CallInfo("run_calculations", r.err,
                           IF propagate_each_step THEN 1 ELSE 0, NoneV,
                           [calls |-> r.calls, steps |-> r.steps])
       /\ UNCHANGED <<ports, elems, repo, erepo, conn, hashOrder, nextId, scheme, conns>>

OtherElem(e) == IF e = ElemA THEN ElemB ELSE ElemA

\* the port references given to connect: two names and two identifiers
PortRefs == <<Str(<<"I">>), Str(<<"O">>), Uuid(PortId(PortP)), Uuid(PortId(PortQ))>>

NextScheme ==
    \/ NewScheme
    \/ \E e \in {ElemA, ElemB} : AddElement(e)
    \/ AddPort(ElemB, PortN)
    \/ \E src_elem \in {ElemA, ElemB}, i \in 1..Len(PortRefs), j \in 1..Len(PortRefs) :
          Connect(src_elem, PortRefs[i], OtherElem(src_elem), PortRefs[j])
    \/ \E oe \in {ElemA, ElemB},
          op \in {PortP, PortO, PortI}, ip \in {PortI, PortQ, PortN} :
          ConnectIds(ElemId(oe), PortId(op), ElemId(OtherElem(oe)), PortId(ip))
    \/ \E both_directions \in BOOLEAN : PropagateKnownValues(both_directions)
    \/ \E propagate_each_step \in BOOLEAN : RunCalculations(propagate_each_step)

SpecScheme == InitScheme /\ [][NextScheme]_vars

\* the elements registered in the scheme, in registration order
Registered == [i \in 1..Len(scheme.elements.repository) |->
                 scheme.elements.repository[i][2]]
RegisteredSet == {Registered[i] : i \in 1..Len(Registered)}

\* the registered elements that hold the port identifier among their ports
OwnersOf(pid) ==
    {e \in RegisteredSet :
        pid \in ItemKeys(elems[e].in_ports.repository)
                  \cup ItemKeys(elems[e].out_ports.repository)}

\* the pairs (A, B) of distinct elements joined by an external edge from a
\* port of A to a port of B
ExternalElementEdges ==
    {ab \in RegisteredSet \X RegisteredSet :
        /\ ab[1] # ab[2]
        /\ \E i \in 1..Len(scheme.edges) :
              /\ ~scheme.edges[i].internal
              /\ ab[1] \in OwnersOf(scheme.edges[i].u)
              /\ ab[2] \in OwnersOf(scheme.edges[i].v)}

\* a numbering of the elements that every edge ascends exists
Acyclic(nodes, edges) ==
    \E f \in [nodes -> 1..Cardinality(nodes)] :
       \A ab \in edges : f[ab[1]] < f[ab[2]]

Precedes(calls, a, b) ==
    \A j \in 1..Len(calls) : calls[j] = b => \E i \in 1..(j - 1) : calls[i] = a

\* every registered element was invoked exactly once
EachOnce(calls) ==
    /\ Len(calls) = Len(Registered)
    /\ \A e \in RegisteredSet : \E i \in 1..Len(calls) : calls[i] = e

\* C13: when the element graph is acyclic, a run invokes calculate on A
\* before calculate on B for every external edge from a port of A to a port
\* of another element B, and a run that returns has invoked every element once.
C13_DependenciesFirst ==
    (last.op = "run_calculations" /\ Acyclic(RegisteredSet, ExternalElementEdges))
    => /\ \A ab \in ExternalElementEdges : Precedes(last.info.calls, ab[1], ab[2])
       /\ last.res = ""
          => /\ EachOnce(last.info.calls)
             /\ \A ab \in ExternalElementEdges :
                   \E i, j \in 1..Len(last.info.calls) :
                      i < j /\ last.info.calls[i] = ab[1] /\ last.info.calls[j] = ab[2]

\* A was registered before B, the only external edge runs from B to A, and
\* the run returned after invoking B and then A
C13_Witness ==
    /\ last.op = "run_calculations" /\ last.res = ""
    /\ Registered = <<ElemA, ElemB>>
    /\ ExternalElementEdges = {<<ElemB, ElemA>>}
    /\ last.info.calls = <<ElemB, ElemA>>

IsPrefix(a, b) == Len(a) <= Len(b) /\ \A i \in 1..Len(a) : a[i] = b[i]

\* C14: when no external edge joins two distinct elements, a run invokes
\* calculate on the elements in their registration order.
C14_RegistrationOrderWithoutEdges ==
    (last.op = "run_calculations" /\ ExternalElementEdges = {})
    => /\ IsPrefix(last.info.calls, Registered)
       /\ last.res = "" => last.info.calls = Registered

\* B was registered before A, nothing joins them, and the run returned
\* after invoking B and then A
C14_Witness ==
    /\ last.op = "run_calculations" /\ last.res = ""
    /\ Registered = <<ElemB, ElemA>>
    /\ ExternalElementEdges = {}
    /\ last.info.calls = <<ElemB, ElemA>>

\* C15: when the external edges form a cycle between elements, a run does
\* not raise because of the cycle and invokes the elements in registration
\* order.
C15_CycleFallsBackToRegistrationOrder ==
    (last.op = "run_calculations" /\ ~Acyclic(RegisteredSet, ExternalElementEdges))
    => /\ last.res \in {"", "NotImplementedError", "KeyError", "OutOfBounds"}
       /\ IsPrefix(last.info.calls, Registered)
       /\ last.res = "" => last.info.calls = Registered

\* external edges run from A to B and from B to A, and the run returned
\* after invoking B and then A, the order of registration
C15_Witness ==
    /\ last.op = "run_calculations" /\ last.res = ""
    /\ {<<ElemA, ElemB>>, <<ElemB, ElemA>>} \subseteq ExternalElementEdges
    /\ Registered = <<ElemB, ElemA>>
    /\ last.info.calls = <<ElemB, ElemA>>

\* C16: in a run, an element without a calculate hook or without an
\* update_internal_connections hook is passed through: the run does not fail
\* for the absence and every element of the order is still invoked.
C16_AbsentHooksArePassThrough ==
    last.op = "run_calculations"
    => /\ last.res # "NotImplementedError"
       /\ last.res \notin {"KeyError", "OutOfBounds"} => EachOnce(last.info.calls)

\* C17: one call of propagate_known_values returns the number of external
\* edges on which the pass changed state: it is not 0 when the pass copied a
\* new payload into some Value, and it is 0 when the pass changed nothing.
C17_CountOfChangedEdges ==
    [][\A both_directions \in BOOLEAN :
          (PropagateKnownValues(both_directions) /\ last'.res = "")
          => /\ (\E o \in DOMAIN vals : vals'[o].val # vals[o].val) => last'.obj > 0
             /\ vals' = vals => last'.obj = 0]_vars

\* the positions of the external edges in the graph
ExternalEdges == {i \in 1..Len(scheme.edges) : ~scheme.edges[i].internal}

\* C18: after any sequence of add_element and connect calls, the external
\* edges and the registered Connections are in one-to-one correspondence:
\* every registered Connection annotates exactly one external edge and every
\* external edge is annotated with the id of a registered Connection.
C18_EdgesMatchConnections ==
    /\ \A cid \in ItemKeys(scheme.connections.repository) :
          Cardinality({i \in ExternalEdges :
                          scheme.edges[i].connection_id = Some(cid)}) = 1
    /\ \A i \in ExternalEdges :
          /\ ~IsNone(scheme.edges[i].connection_id)
          /\ Get(scheme.edges[i].connection_id)
                \in ItemKeys(scheme.connections.repository)

\* the identifier under which the element holds an out-port (kind 1) or an
\* in-port (kind 0) of that name, if any
NamedPort(e, kind, name) ==
    LET r == IF kind = 1 THEN elems[e].out_ports ELSE elems[e].in_ports
    IN MapGet(r.base_name_to_id, name)

\* C19: connect resolves a source name to the out-port of that name of the
\* source element and a destination name to the in-port of that name of the
\* destination element whenever both exist, and rejects a source name that
\* designates only an in-port and a destination name that designates only an
\* out-port.  Both elements are registered, so that an error of the
\* resolution is the only KeyError or ValueError connect can raise.
C19_ConnectResolvesByDirection ==
    [][\A src_elem \in {ElemA, ElemB}, i \in 1..2, j \in 1..2 :
          LET dst_elem == OtherElem(src_elem)
              src == NamedPort(src_elem, 1, PortRefs[i].v)
              dst == NamedPort(dst_elem, 0, PortRefs[j].v)
          IN (Connect(src_elem, PortRefs[i], dst_elem, PortRefs[j])
                 /\ RegisteredSet = {ElemA, ElemB})
             => /\ (~IsNone(src) /\ ~IsNone(dst))
                   => /\ last'.res \notin {"KeyError", "ValueError"}
                      /\ last'.res = ""
                         => /\ conns'[NextConn].out_port_id = Get(src)
                            /\ conns'[NextConn].in_port_id = Get(dst)
                /\ (IsNone(src) /\ ~IsNone(NamedPort(src_elem, 0, PortRefs[i].v)))
                   => last'.res # ""
                /\ (IsNone(dst) /\ ~IsNone(NamedPort(dst_elem, 1, PortRefs[j].v)))
                   => last'.res # ""]_vars

\* C20: every port identifier that is a node of the graph resolves through
\* the port index to the element that owns it, its Port and its direction.
C20_GraphNodesAreIndexed ==
    \A k \in 1..Len(scheme.nodes) :
       LET pid == scheme.nodes[k]
       IN /\ pid \in DOMAIN scheme.port_index
          /\ LET x == scheme.port_index[pid]
                 r == IF x.kind = 0 THEN elems[x.elem].in_ports
                      ELSE elems[x.elem].out_ports
             IN /\ x.elem \in RegisteredSet
                /\ ItemGet(r.repository, pid) = Some(x.port)

\* the calls a complete run makes for the elements it invokes, in order
StepsFor(calls, propagate_each_step) ==
    LET k == IF propagate_each_step THEN 3 ELSE 2
    IN [j \in 1..(k * Len(calls)) |->
          LET e == calls[((j - 1) \div k) + 1]
              r == (j - 1) % k
          IN IF r = 0 THEN Step("calculate", e)
             ELSE IF r = 1 THEN Step("update_internal_connections", e)
             ELSE Step("propagate_known_values", 0)]

\* C27: a run with propagate_each_step makes, for each element in turn, the
\* calls calculate, update_internal_connections and one propagation pass, the
\* three of one element before calculate of the next; a run without
\* propagate_each_step makes no propagation pass.  A run that raises has
\* made the calls up to the one that raised.
C27_StepsPerElement ==
    last.op = "run_calculations"
    => /\ IsPrefix(last.info.steps, StepsFor(last.info.calls, last.obj = 1))
       /\ last.res = "" => /\ last.info.steps = StepsFor(last.info.calls, last.obj = 1)
                           /\ Len(last.info.calls) = Len(Registered)
       /\ last.obj = 0 => \A j \in 1..Len(last.info.steps) :
                             last.info.steps[j][1] # "propagate_known_values"

\* a run with propagate_each_step over two elements returned after six calls
C27_Witness ==
    /\ last.op = "run_calculations" /\ last.res = "" /\ last.obj = 1
    /\ Len(Registered) = 2
    /\ last.info.steps = <<Step("calculate", Registered[1]),
                           Step("update_internal_connections", Registered[1]),
                           Step("propagate_known_values", 0),
                           Step("calculate", Registered[2]),
                           Step("update_internal_connections", Registered[2]),
                           Step("propagate_known_values", 0)>>

\* C28: every run invokes calculate exactly once on every registered
\* element, whether the element graph has a cycle or not.
C28_EveryElementOnce ==
    last.op = "run_calculations"
    => \A e \in RegisteredSet :
          Cardinality({i \in 1..Len(last.info.calls) : last.info.calls[i] = e}) = 1

\* the errors of Connection.validate
ValidationErrors == {"DanglingReference", "IncompatibleSpecSet", "MultiplicityMismatch"}

\* C29: a connect or connect_ids call that fails validation leaves the
\* scheme as it was: no Connection registered, no node and no edge added,
\* nothing else of its state changed.
C29_FailedConnectLeavesScheme ==
    [][(last'.op \in {"connect", "connect_ids"} /\ last'.res \in ValidationErrors)
          => scheme' = scheme /\ conns' = conns]_vars

\* the edges of the graph, as a set
EdgeSet(s) == {s.edges[i] : i \in 1..Len(s.edges)}

InIds(e) == ItemKeys(elems[e].in_ports.repository)
OutIds(e) == ItemKeys(elems[e].out_ports.repository)

\* the ids of a group of the element, as a set
GroupIds(e, g) == {InternalGroups(elems[e])[g][k] : k \in 1..Len(InternalGroups(elems[e])[g])}

--------------------------------------------------------------------------
(* SpecIndex: the Scheme, the Elements A (with one parameter k) and B of   *)
(* SpecScheme and a further Value y, driven through add_element,           *)
(* Port.add_value and Value.update.                                        *)

\* Port.add_value: the Value is registered in the repository of the port
PortAddValue(port, obj, name, id) ==
    LET reg == RepoRegister(port.values, obj, name, "value", NoneV, id)
    IN [err |-> reg.err, p |-> [port EXCEPT !.values = reg.r]]

ParamK == 6
SpareY == 7

\* the Values of SpecScheme, the parameter k of A and the Value y
IndexHeap ==
    [o \in 1..7 |->
        IF o = ParamK
        THEN ValueInit(ValueName("k", 1), SpecX, Some(1), "FIXED", TRUE, NoneV, NoneV).v
        ELSE IF o = SpareY
        THEN ValueInit(ValueName("y", 1), SpecX, NoneV, "UNKNOWN", TRUE, NoneV, NoneV).v
        ELSE SchemeHeap[o]]

IndexElems ==
    [e \in {ElemA, ElemB} |->
        IF e = ElemA
        THEN ElementInitFull(<<"A">>, <<PortItem(PortI, <<"I">>)>>,
                             <<PortItem(PortP, <<"O">>)>>,
                             ValueItems(<<ParamK>>, IndexHeap), TRUE, TRUE, <<>>).e
        ELSE SchemeElems(<<TRUE, TRUE>>)[e]]

InitIndex ==
    /\ vals = IndexHeap
    /\ ports = SchemePorts
    /\ elems = IndexElems
    /\ repo = NoRepo
    /\ erepo = NoRepo
    /\ conn = NoConn
    /\ hashOrder = <<SpecX, SpecY>>
    /\ nextId = 0
    /\ scheme = SchemeInit(<<"S">>).s
    /\ conns = EmptyMap
    /\ last = NoCall

\* ports[p].add_value(vals[o])
AddValue(p, o) ==
    \E r \in {PortAddValue(ports[p], o, vals[o].name, ValueId(o))} :
       /\ ports' = [ports EXCEPT ![p] = r.p]
       /\ last' = Call("add_value", r.err, o, NoneV)
       /\ UNCHANGED <<vals, elems, repo, erepo, conn, hashOrder, nextId, scheme, conns>>

\* vals[o].update(value, status)
UpdateValue(o, value, status) ==
    \E r \in {ValueUpdate(vals[o], value, status)} :
       /\ vals' = [vals EXCEPT ![o] = r.v]
       /\ last' = Call("update", IF r.ok THEN "" ELSE "OutOfBounds", o, NoneV)
       /\ UNCHANGED <<ports, elems, repo, erepo, conn, hashOrder, nextId, scheme, conns>>

NextIndex ==
    \/ \E e \in {ElemA, ElemB} : AddElement(e)
    \/ \E p \in {PortI, PortQ} : AddValue(p, SpareY)
    \/ \E value \in {NoneV, Some(1)}, status \in {NoneV, Some("CALCULATED")} :
          UpdateValue(SpareY, value, status)

SpecIndex == InitIndex /\ [][NextIndex]_vars

\* C21: the value index of the scheme holds every Value of every port and
\* every parameter of every registered element.
C21_ValueIndexCoversEveryValue ==
    \A e \in RegisteredSet :
       LET ps == RepoObjects(elems[e].in_ports) \o RepoObjects(elems[e].out_ports)
           items == PortValueItems([k \in 1..Len(ps) |-> <<0, ps[k]>>], ports)
                      \o elems[e].parameters.repository
       IN \A k \in 1..Len(items) :
             /\ items[k][1] \in DOMAIN scheme.value_index
             /\ scheme.value_index[items[k][1]] = items[k][2]

--------------------------------------------------------------------------
(* SpecElement: Element.__init__ over one or two in-ports, one out-port    *)
(* and at most one parameter, with every choice of their names.            *)

ElemNames == {<<"a">>, <<"b">>, <<"a", "_", "b">>}

NameLists(lo, hi) == UNION {[1..n -> ElemNames] : n \in lo..hi}

InitElement ==
    /\ vals = <<>>
    /\ ports = <<>>
    /\ elems = EmptyMap
    /\ repo = NoRepo
    /\ erepo = NoRepo
    /\ conn = NoConn
    /\ hashOrder = <<>>
    /\ nextId = 0
    /\ scheme = NoScheme
    /\ conns = EmptyMap
    /\ last = NoCall

\* Element("E", "", in_ports, out_ports, parameters) over fresh Ports and
\* Values of the given names; the element exists when __init__ returns
Construct(in_names, out_names, param_names) ==
    LET names == in_names \o out_names
        newPorts == [p \in 1..Len(names) |-> PortInit(names[p], <<>>).p]
        newVals == [o \in 1..Len(param_names) |-> PlainValue(param_names[o], SpecX)]
        r == ElementInit(<<"E">>,
                     [k \in 1..Len(in_names) |-> PortItem(k, in_names[k])],
                     [k \in 1..Len(out_names) |->
                         PortItem(Len(in_names) + k, out_names[k])],
                     ValueItems([o \in 1..Len(param_names) |-> o], newVals))
    IN    /\ ports' = newPorts
          /\ vals' = newVals
          /\ elems' = IF r.ok THEN [e \in {ElemA} |-> r.e] ELSE EmptyMap
          /\ last' = Call("Element", IF r.ok THEN "" ELSE "ValueError", 0, NoneV)
          /\ UNCHANGED <<repo, erepo, conn, hashOrder, nextId, scheme, conns>>

NextElement ==
    \E in_names \in NameLists(1, 2), out_names \in NameLists(1, 1),
       param_names \in NameLists(0, 1) :
       Construct(in_names, out_names, param_names)

SpecElement == InitElement /\ [][NextElement]_vars

\* the base names registered in a repository
BaseNames(r) == DOMAIN r.base_name_to_id

\* C22: in a constructed Element no base name is shared between two of its
\* in-ports, out-ports and parameters, and no base name contains '_'.
C22_ElementNamesDistinct ==
    \A e \in DOMAIN elems :
       LET i == BaseNames(elems[e].in_ports)
           o == BaseNames(elems[e].out_ports)
           q == BaseNames(elems[e].parameters)
       IN /\ i \cap o = {} /\ i \cap q = {} /\ o \cap q = {}
          /\ \A n \in i \cup o \cup q : ~HasUnderscore(n)

\* C23: Value.from_dict(v.to_dict()) succeeds and yields a Value with the
\* name, spec, payload, status and bounds of v.
C23_ValueRoundTrip ==
    [][RoundTrip(TheValue)
          => /\ last'.res = ""
             /\ LET v == vals[TheValue]
                    w == Get(last'.info)
                IN /\ w.name = v.name /\ w.value_spec = v.value_spec
                   /\ w.val = v.val /\ w.status = v.status
                   /\ w.min_value = v.min_value /\ w.max_value = v.max_value]_vars

\* C25: a successful update of a Value that keeps history leaves the payload
\* and the status held before the call in the history slot, the new payload
\* as the payload, and the new status as the status when one was given and
\* the old status otherwise.
C25_UpdateRecordsThenCommits ==
    [][\A p \in OptPayload, s \in OptStatus :
          (Update(TheValue, p, s) /\ vals[TheValue].store_prev /\ last'.res = "")
          => /\ vals'[TheValue].prev_val = vals[TheValue].val
             /\ vals'[TheValue].prev_status = Some(vals[TheValue].status)
             /\ vals'[TheValue].val = p
             /\ vals'[TheValue].status = IF IsNone(s) THEN vals[TheValue].status
                                         ELSE Get(s)]_vars

\* a successful update of a Value with history that changed both the payload
\* and the status
C25_Witness ==
    /\ last.op = "update" /\ last.res = ""
    /\ vals[TheValue].store_prev
    /\ ~IsNone(vals[TheValue].val) /\ ~IsNone(vals[TheValue].prev_val)
    /\ vals[TheValue].prev_val # vals[TheValue].val
    /\ vals[TheValue].prev_status # Some(vals[TheValue].status)

\* the payload of every Value is absent or lies within its bounds
WithinBounds ==
    \A o \in DOMAIN vals :
       \/ IsNone(vals[o].val)
       \/ /\ IsNone(vals[o].min_value) \/ Get(vals[o].min_value) <= Get(vals[o].val)
          /\ IsNone(vals[o].max_value) \/ Get(vals[o].val) <= Get(vals[o].max_value)

\* C34: in every state the payload of a Value is absent or within its
\* bounds, and a set_bounds call whose bounds exclude the payload raises and
\* leaves both bounds as they were.
C34_PayloadWithinBounds ==
    /\ []WithinBounds
    /\ [][\A mn \in OptPayload, mx \in OptPayload :
             (SetBounds(TheValue, mn, mx)
                /\ ~IsNone(vals[TheValue].val)
                /\ \/ ~IsNone(mn) /\ Get(vals[TheValue].val) < Get(mn)
                   \/ ~IsNone(mx) /\ Get(vals[TheValue].val) > Get(mx))
             => /\ last'.res = "OutOfBounds"
                /\ vals'[TheValue].min_value = vals[TheValue].min_value
                /\ vals'[TheValue].max_value = vals[TheValue].max_value]_vars

\* set_bounds was rejected for a Value that holds a payload between two
\* different bounds
C34_Witness ==
    /\ last.op = "set_bounds" /\ last.res = "OutOfBounds"
    /\ vals[TheValue].val = Some(2)
    /\ vals[TheValue].min_value = Some(1)
    /\ vals[TheValue].max_value = Some(2)

\* C37: get_residual returns None, raises nothing and leaves the Value as
\* it is when no previous payload is stored or the previous status is
\* UNKNOWN; otherwise, for an integer payload, it returns the current
\* payload minus the previous one.
C37_ResidualOrAbsent ==
    [][GetResidual(TheValue)
         => LET v == vals[TheValue]
            IN /\ vals' = vals
               /\ last'.res = ""
               /\ (IsNone(v.prev_val) \/ v.prev_status = Some("UNKNOWN"))
                     => last'.id = NoneV
               /\ (~IsNone(v.prev_val) /\ v.prev_status # Some("UNKNOWN")
                     /\ ~IsNone(v.val))
                     => last'.id = Some(Get(v.val) - Get(v.prev_val))]_vars

\* a residual other than zero has been returned, and the call before was
\* answered with None for a previous status UNKNOWN
C37_Witness ==
    /\ last.op = "get_residual"
    /\ last.id = Some(1)
    /\ vals[TheValue].val = Some(2)
    /\ vals[TheValue].prev_val = Some(1)
    /\ vals[TheValue].prev_status \in {Some("FIXED"), Some("CALCULATED"), Some("DEPEND")}

\* the previous payload is stored with the status UNKNOWN and None is returned
C37_WitnessUnknown ==
    /\ last.op = "get_residual"
    /\ last.id = NoneV
    /\ ~IsNone(vals[TheValue].prev_val)
    /\ ~IsNone(vals[TheValue].val)
    /\ vals[TheValue].prev_status = Some("UNKNOWN")

--------------------------------------------------------------------------
(* SpecHooks: the Element A of SpecIndex, constructed with every choice of *)
(* its two behaviour hooks, driven through calculate,                      *)
(* update_internal_connections and updates of its parameter.               *)

InitHooks ==
    /\ vals = IndexHeap
    /\ ports = SchemePorts
    /\ \E calculate_func \in BOOLEAN, update_int_conn_func \in BOOLEAN :
          elems = [e \in {ElemA} |->
                     ElementInitFull(<<"A">>, <<PortItem(PortI, <<"I">>)>>,
                                     <<PortItem(PortP, <<"O">>)>>,
                                     ValueItems(<<ParamK>>, IndexHeap),
                                     calculate_func, update_int_conn_func, <<>>).e]
    /\ repo = NoRepo
    /\ erepo = NoRepo
    /\ conn = NoConn
    /\ hashOrder = <<>>
    /\ nextId = 0
    /\ scheme = NoScheme
    /\ conns = EmptyMap
    /\ last = NoCall

\* elems[e].calculate()
Calculate(e) ==
    \E r \in {ElementCalculate(elems[e], vals)} :
       /\ vals' = r.vals
       /\ last' = Call("calculate", r.err, e, NoneV)
       /\ UNCHANGED <<ports, elems, repo, erepo, conn, hashOrder, nextId, scheme, conns>>

\* elems[e].update_internal_connections()
UpdateInternalConnections(e) ==
    \E r \in {ElementUpdateInternalConnections(elems[e], vals)} :
       /\ vals' = r.vals
       /\ last' = Call("update_internal_connections", r.err, e, NoneV)
       /\ UNCHANGED <<ports, elems, repo, erepo, conn, hashOrder, nextId, scheme, conns>>

NextHooks ==
    \/ Calculate(ElemA)
    \/ UpdateInternalConnections(ElemA)
    \/ \E value \in OptPayload, status \in OptStatus : UpdateValue(ParamK, value, status)

SpecHooks == InitHooks /\ [][NextHooks]_vars

\* the Value objects of the ports and of the parameters of an element
ElementValues(e) ==
    LET ps == RepoObjects(elems[e].in_ports) \o RepoObjects(elems[e].out_ports)
        items == PortValueItems([k \in 1..Len(ps) |-> <<0, ps[k]>>], ports)
                   \o elems[e].parameters.repository
    IN {items[k][2] : k \in 1..Len(items)}

\* C24: calculate and update_internal_connections run the injected function
\* when one was supplied; when none was, they fail with the not-implemented
\* error and no port Value and no parameter of the element is changed.
C24_HooksRunOrNotImplemented ==
    [][/\ Calculate(ElemA)
          => IF elems[ElemA].calculate_func
             THEN /\ last'.res = ""
                  /\ vals' = CalculateFunc(RepoObjects(elems[ElemA].parameters), vals)
             ELSE /\ last'.res = "NotImplementedError"
                  /\ \A o \in ElementValues(ElemA) : vals'[o] = vals[o]
       /\ UpdateInternalConnections(ElemA)
          => IF elems[ElemA].update_int_conn_func
             THEN /\ last'.res = ""
                  /\ vals' = UpdateIntConnFunc(RepoObjects(elems[ElemA].parameters), vals)
             ELSE /\ last'.res = "NotImplementedError"
                  /\ \A o \in ElementValues(ElemA) : vals'[o] = vals[o]]_vars

\* calculate of an element without a calculate hook failed after the
\* injected update_internal_connections function had marked the parameter
C24_Witness ==
    /\ last.op = "calculate" /\ last.res = "NotImplementedError"
    /\ ~elems[ElemA].calculate_func /\ elems[ElemA].update_int_conn_func
    /\ vals[ParamK].status = "DEPEND" /\ vals[ParamK].prev_status = Some("DEPEND")

--------------------------------------------------------------------------
(* Value.py: arithmetic.  A dimension is an optional string, written as a  *)
(* sequence of tokens; the fields of a ValueClass are optional.            *)

\* f"({dim})"
Paren(dim) == <<"(">> \o dim \o <<")">>

\* truth value of an optional string: neither None nor ""
DimTruthy(dim) == ~IsNone(dim) /\ Get(dim) # <<>>

\* mutant: equal dimensions are multiplied like different ones
CombineDimsNoSquare(dim1, dim2, op) ==
    IF IsNone(dim1) /\ IsNone(dim2) THEN NoneV
    ELSE IF op \in {"+", "-"} THEN (IF dim1 = dim2 THEN dim1 ELSE NoneV)
    ELSE IF op = "*"
    THEN IF IsNone(dim1) THEN dim2
         ELSE IF IsNone(dim2) THEN dim1
         ELSE Some(Paren(Get(dim1)) \o <<"*">> \o Paren(Get(dim2)))
    ELSE IF op = "/"
    THEN IF IsNone(dim1)
         THEN (IF DimTruthy(dim2) THEN Some(<<"1", "/">> \o Paren(Get(dim2))) ELSE NoneV)
         ELSE IF IsNone(dim2) THEN dim1
         ELSE IF dim1 = dim2 THEN Some(<<"1">>)
         ELSE Some(Paren(Get(dim1)) \o <<"/">> \o Paren(Get(dim2)))
    ELSE NoneV

\* combine_dims
CombineDims(dim1, dim2, op) ==
    IF IsNone(dim1) /\ IsNone(dim2) THEN NoneV
    ELSE IF op \in {"+", "-"} THEN (IF dim1 = dim2 THEN dim1 ELSE NoneV)
    ELSE IF op = "*"
    THEN IF IsNone(dim1) THEN dim2
         ELSE IF IsNone(dim2) THEN dim1
         ELSE IF dim1 = dim2 THEN Some(Paren(Get(dim1)) \o <<"^", "2">>)
         ELSE Some(Paren(Get(dim1)) \o <<"*">> \o Paren(Get(dim2)))
    ELSE IF op = "/"
    THEN IF IsNone(dim1)
         THEN (IF DimTruthy(dim2) THEN Some(<<"1", "/">> \o Paren(Get(dim2))) ELSE NoneV)
         ELSE IF IsNone(dim2) THEN dim1
         ELSE IF dim1 = dim2 THEN Some(<<"1">>)
         ELSE Some(Paren(Get(dim1)) \o <<"/">> \o Paren(Get(dim2)))
    ELSE NoneV

\* ValueClass(value_name, physics_type, dimension)
ValueClass(value_name, physics_type, dimension) ==
    [value_name |-> value_name, physics_type |-> physics_type, dimension |-> dimension]

\* Value._determine_result_spec (the exponent of "**" is a non-negative integer)
DetermineResultSpec(self, other, op_str) ==
    LET physics_type == IF self.value_spec.physics_type = other.value_spec.physics_type
                        THEN self.value_spec.physics_type ELSE NoneV
    IN IF op_str \in {"+", "-"}
       THEN IF self.value_spec = other.value_spec THEN self.value_spec
            ELSE IF self.value_spec.dimension = other.value_spec.dimension
            THEN ValueClass(NoneV, NoneV, self.value_spec.dimension)
            ELSE ValueClass(NoneV, NoneV, NoneV)
       ELSE IF op_str \in {"*", "/"}
       THEN ValueClass(NoneV, physics_type,
                       CombineDims(self.value_spec.dimension, other.value_spec.dimension, op_str))
       ELSE IF op_str = "**"
       THEN IF IsNone(other.value_spec.dimension) /\ IsNone(other.value_spec.physics_type)
            THEN ValueClass(NoneV, self.value_spec.physics_type,
                            IF DimTruthy(self.value_spec.dimension)
                            THEN Some(Paren(Get(self.value_spec.dimension))
                                        \o <<"^">> \o Decimal(Get(other.val)))
                            ELSE NoneV)
            ELSE ValueClass(NoneV, NoneV, NoneV)
       ELSE ValueClass(NoneV, NoneV, NoneV)

\* a / b of two integers is a float, kept as the pair of its operands
Quotient(a, b) == [num |-> a, den |-> b]

\* op(self.value, other.value): ok is FALSE when the operator raises
Operate(a, b, op_str) ==
    IF op_str = "+" THEN [ok |-> TRUE, value |-> Some(a + b)]
    ELSE IF op_str = "-" THEN [ok |-> TRUE, value |-> Some(a - b)]
    ELSE IF op_str = "*" THEN [ok |-> TRUE, value |-> Some(a * b)]
    ELSE IF op_str = "/"
    THEN (IF b = 0 THEN [ok |-> FALSE, value |-> NoneV]
          ELSE [ok |-> TRUE, value |-> Some(Quotient(a, b))])
    ELSE [ok |-> TRUE, value |-> Some(IF b = 0 THEN 1 ELSE a ^ b)]

\* Value("constant", ValueClass(None, None, None), other, FIXED)
ConstantValue(other) ==
    ValueInit(<<"c", "o", "n", "s", "t", "a", "n", "t">>, ValueClass(NoneV, NoneV, NoneV),
              other, "FIXED", TRUE, NoneV, NoneV).v

\* Value._numeric_operation on two Values: err is "" and v the new Value, or
\* err is the error raised
NumericOperation(self, other, op_str) ==
    IF IsNone(self.val) \/ IsNone(other.val)
    THEN [err |-> "TypeError", v |-> NoneV]
    ELSE LET new_spec == DetermineResultSpec(self, other, op_str)
             r == Operate(Get(self.val), Get(other.val), op_str)
         IN IF ~r.ok THEN [err |-> "TypeError", v |-> NoneV]
            ELSE [err |-> "",
                  v |-> Some(ValueInit(<<"(">> \o self.name \o <<op_str>> \o other.name \o <<")">>,
                                       new_spec, r.value, "CALCULATED", TRUE, NoneV, NoneV).v)]

--------------------------------------------------------------------------
(* SpecArith: two Values a and b with every dimension, payload and spec of *)
(* the bounded sets, combined by the arithmetic operators; b also stands   *)
(* as a plain number.                                                      *)

ValA == 1
ValB == 2

\* the dimensions: None, "", "kg", "m"
DimSet == {NoneV, Some(<<>>), Some(<<"kg">>), Some(<<"m">>)}

\* the payloads of the operands: None and the integers from 0
ArithPayload == {NoneV} \cup {Some(n) : n \in 0..MaxPayload}

OpSet == {"+", "-", "*", "/", "**"}

InitArith ==
    /\ \E dim1 \in DimSet, dim2 \in DimSet, a \in ArithPayload, b \in ArithPayload,
          value_name \in {Some("X"), Some("Y")}, physics_type \in {Some("thermo"), NoneV} :
          vals = [o \in {ValA, ValB} |->
                    IF o = ValA
                    THEN ValueInit(<<"a">>, ValueClass(Some("X"), Some("thermo"), dim1),
                                   a, "FIXED", TRUE, NoneV, NoneV).v
                    ELSE ValueInit(<<"b">>, ValueClass(value_name, physics_type, dim2),
                                   b, "DEPEND", TRUE, NoneV, NoneV).v]
    /\ ports = EmptyMap
    /\ elems = EmptyMap
    /\ repo = NoRepo
    /\ erepo = NoRepo
    /\ conn = NoConn
    /\ hashOrder = <<>>
    /\ nextId = 0
    /\ scheme = NoScheme
    /\ conns = EmptyMap
    /\ last = NoCall

\* vals[x] op vals[y]; info holds the Value returned
Arith(x, y, op_str) ==
    \E r \in {NumericOperation(vals[x], vals[y], op_str)} :
       /\ last' = CallInfo(op_str, r.err, x, NoneV, r.v)
       /\ UNCHANGED <<vals, ports, elems, repo, erepo, conn, hashOrder, nextId,
                      scheme, conns>>

\* vals[x] op n, with the plain number n = vals[y].value
ArithNumber(x, y, op_str) ==
    \E r \in {NumericOperation(vals[x], ConstantValue(vals[y].val), op_str)} :
       /\ last' = CallInfo(op_str, r.err, x, Some(0), r.v)
       /\ UNCHANGED <<vals, ports, elems, repo, erepo, conn, hashOrder, nextId,
                      scheme, conns>>

NextArith ==
    \/ \E op_str \in OpSet : Arith(ValA, ValB, op_str)
    \/ \E op_str \in OpSet : ArithNumber(ValA, ValB, op_str)

SpecArith == InitArith /\ [][NextArith]_vars

\* both operands of the step hold numbers
Numeric == ~IsNone(vals[ValA].val) /\ ~IsNone(vals[ValB].val)

DimA == vals[ValA].value_spec.dimension
DimB == vals[ValB].value_spec.dimension

--------------------------------------------------------------------------
(* SpecPass: the Scheme of SpecScheme with A and B registered and two      *)
(* Connections between their ports (one out-port feeding two in-ports, two *)
(* out-ports feeding one in-port, or two separate pairs), the four Values  *)
(* constructed with every status, driven through propagate_known_values    *)
(* and an update of the Value of A's out-port.                             *)

\* the (out-port, in-port) ends of the two Connections: A.O feeding both
\* in-ports, both out-ports feeding B.I, and two separate pairs
PassShapes == {<<<<PortP, PortQ>>, <<PortP, PortI>>>>,
               <<<<PortP, PortQ>>, <<PortO, PortQ>>>>,
               <<<<PortP, PortQ>>, <<PortO, PortI>>>>}

\* the element that owns the port
PassOwner(p) == IF p \in {PortI, PortP} THEN ElemA ELSE ElemB

\* the Values of A.I, A.O, B.I, B.O and N; the Value of B.O gives the
\* payload 1, the other giving Values the largest payload
PassHeap(a) ==
    [o \in 1..5 |->
        IF o = 5 THEN SchemeHeap[o]
        ELSE ValueInit(ValueName("x", 1), SpecX,
                       IF o = 4 /\ a[o].status \in Authoritative THEN Some(1)
                       ELSE a[o].value,
                       a[o].status, TRUE, NoneV, a[o].max_value).v]

\* scheme.connect_ids for the Connection object c between the ends e
PassConnect(s, c, e, connHeap) ==
    SchemeConnectIds(s, c, ConnId(c), ElemId(PassOwner(e[1])), PortId(e[1]),
                     ElemId(PassOwner(e[2])), PortId(e[2]),
                     SchemeElems(<<TRUE, TRUE>>), SchemePorts, SchemeHeap, connHeap)

\* scheme.add_element(A); scheme.add_element(B); two connect_ids calls; then
\* the Values are given their statuses and payloads
InitPass ==
    /\ ports = SchemePorts
    /\ elems = SchemeElems(<<TRUE, TRUE>>)
    /\ repo = NoRepo
    /\ erepo = NoRepo
    /\ conn = NoConn
    /\ hashOrder = <<SpecX, SpecY>>
    /\ nextId = 0
    /\ last = NoCall
    /\ \E s1 \in {SchemeAddElement(SchemeInit(<<"S">>).s, ElemA, ElemId(ElemA),
                                   SchemeElems(<<TRUE, TRUE>>), SchemePorts)} :
       \E s2 \in {SchemeAddElement(s1.s, ElemB, ElemId(ElemB),
                                   SchemeElems(<<TRUE, TRUE>>), SchemePorts)} :
       \E shape \in PassShapes :
       \E c1 \in {PassConnect(s2.s, 1, shape[1], EmptyMap)} :
       \E c2 \in {PassConnect(c1.s, 2, shape[2], MapSet(EmptyMap, 1, c1.conn))} :
          /\ s1.err = "" /\ s2.err = "" /\ c1.err = "" /\ c2.err = ""
          /\ scheme = c2.s
          /\ conns = MapSet(MapSet(EmptyMap, 1, c1.conn), 2, c2.conn)
    /\ \E a \in [1..4 -> MoreArgs] : vals = PassHeap(a)

\* scheme.propagate_known_values(both_directions); obj records the result
\* and id the number of passes in a row (up to CallsCap)
Pass(both_directions) ==
    \E r \in {SchemePropagateKnownValues(scheme, both_directions, elems, ports,
                                         vals, conns, hashOrder)} :
    LET n == IF last.op = "propagate_known_values" THEN Get(last.id) ELSE 0
    IN /\ vals' = r.vals
       /\ last' = Call("propagate_known_values", r.err, r.moved,
                       Some(IF n < CallsCap THEN n + 1 ELSE n))
       /\ UNCHANGED <<ports, elems, repo, erepo, conn, hashOrder, nextId, scheme, conns>>

NextPass ==
    \/ \E both_directions \in BOOLEAN : Pass(both_directions)
    \/ UpdateValue(SchemePortValue(PortP), Some(1), NoneV)

SpecPass == InitPass /\ [][NextPass]_vars

\* C32: a pass of propagate_known_values that follows a pass directly
\* changes no payload and no status of any Value of the scheme.
C32_SecondPassChangesNothing ==
    [][\A both_directions \in BOOLEAN :
          (last.op = "propagate_known_values" /\ Pass(both_directions))
          => \A o \in DOMAIN vals :
                /\ vals'[o].val = vals[o].val
                /\ vals'[o].status = vals[o].status]_vars

\* a second pass in a row over a scheme in which both out-ports feed the
\* in-port of B: the Value of B.I took the payload of A.O and then, last,
\* that of B.O
C32_Witness ==
    /\ last.op = "propagate_known_values" /\ last.res = "" /\ last.id = Some(2)
    /\ {<<x.u, x.v>> : x \in EdgeSet(scheme)}
          = {<<PortId(PortI), PortId(PortP)>>, <<PortId(PortP), PortId(PortQ)>>,
             <<PortId(PortO), PortId(PortQ)>>}
    /\ vals[2].status = "FIXED" /\ vals[4].status = "CALCULATED"
    /\ vals[3].status = "DEPEND"
    /\ vals[3].val = vals[4].val /\ vals[3].prev_val = vals[2].val
    /\ vals[2].val # vals[4].val


--------------------------------------------------------------------------
(* ElementProxy.py: ElementIO and the requires decorator.  SpecRequires:  *)
(* the element A with the in-port I (Value x), the out-port O (Value x)   *)
(* and the parameter k, in every combination of statuses; a function      *)
(* wrapped with requires(...) is called through a fresh ElementIO, as     *)
(* call_user_func does.                                                   *)

KNOWN_STATUSES == {"CALCULATED", "FIXED", "DEPEND"}

\* path.split(".", 1): one part when the path has no dot
SplitDot(path) ==
    LET dots == {i \in 1..Len(path) : path[i] = "."}
    IN IF dots = {} THEN <<path>>
       ELSE LET i == CHOOSE d \in dots : \A e \in dots : d <= e
            IN <<SubSeq(path, 1, i - 1), SubSeq(path, i + 1, Len(path))>>

\* the dict filled by `for _, v in ...: d[v.name] = v` over the objects objs
ByName(objs, names) ==
    [n \in {names[objs[k]] : k \in 1..Len(objs)} |->
        objs[CHOOSE k \in 1..Len(objs) :
                /\ names[objs[k]] = n
                /\ \A l \in 1..Len(objs) : names[objs[l]] = n => l <= k]]

\* PortProxy.__init__: _values_by_name
PortProxyInit(port, heap) ==
    ByName(PortValues(port), [o \in DOMAIN heap |-> heap[o].name])

\* PortsProxy.__init__: _ports, port name -> PortProxy
PortsProxyInit(r, portTable, heap) ==
    LET byName == ByName(RepoObjects(r), [q \in DOMAIN portTable |-> portTable[q].name])
    IN [n \in DOMAIN byName |-> PortProxyInit(portTable[byName[n]], heap)]

\* ParamsProxy.__init__: _values_by_name
ParamsProxyInit(r, heap) ==
    ByName(RepoObjects(r), [o \in DOMAIN heap |-> heap[o].name])

\* ElementIO.__init__
ElementIOInit(element, portTable, heap) ==
    [inputs  |-> PortsProxyInit(element.in_ports, portTable, heap),
     outputs |-> PortsProxyInit(element.out_ports, portTable, heap),
     params  |-> ParamsProxyInit(element.parameters, heap)]

\* PortsProxy.exists
PortsProxyExists(pp, path) ==
    LET parts == SplitDot(path)
    IN IF Len(parts) = 2
       THEN parts[1] \in DOMAIN pp /\ parts[2] \in DOMAIN pp[parts[1]]
       ELSE path \in DOMAIN pp

\* mutant: DEPEND does not count as known
PortsProxyIsKnownStrict(pp, path, heap) ==
    LET parts == SplitDot(path)
    IN IF Len(parts) # 2 THEN FALSE
       ELSE /\ parts[1] \in DOMAIN pp
            /\ parts[2] \in DOMAIN pp[parts[1]]
            /\ heap[pp[parts[1]][parts[2]]].status \in {"CALCULATED", "FIXED"}

\* PortsProxy.is_known, PortProxy.is_known
PortsProxyIsKnown(pp, path, heap) ==
    LET parts == SplitDot(path)
    IN IF Len(parts) # 2 THEN FALSE
       ELSE /\ parts[1] \in DOMAIN pp
            /\ parts[2] \in DOMAIN pp[parts[1]]
            /\ heap[pp[parts[1]][parts[2]]].status \in KNOWN_STATUSES

\* ParamsProxy.exists and ParamsProxy.is_known
ParamKnown(params, name, heap) ==
    /\ name \in DOMAIN params
    /\ name \in DOMAIN params /\ heap[params[name]].status \in KNOWN_STATUSES

\* ElementIO._missing_port_values
RECURSIVE MissingPortValues(_, _, _)
MissingPortValues(pp, paths, heap) ==
    IF Len(paths) = 0 THEN <<>>
    ELSE (IF PortsProxyExists(pp, Head(paths)) /\ PortsProxyIsKnown(pp, Head(paths), heap)
          THEN <<>> ELSE <<Head(paths)>>)
         \o MissingPortValues(pp, Tail(paths), heap)

\* the params of require that are missing or not known
RECURSIVE MissingParams(_, _, _)
MissingParams(params, names, heap) ==
    IF Len(names) = 0 THEN <<>>
    ELSE (IF ParamKnown(params, Head(names), heap) THEN <<>> ELSE <<Head(names)>>)
         \o MissingParams(params, Tail(names), heap)

\* `x or []` for an optional list
OrEmpty(x) == IF IsNone(x) \/ Get(x) = <<>> THEN <<>> ELSE Get(x)

\* ElementIO.require(..., raise_exception=False)
Require(io, inputs, outputs, params, heap) ==
    LET missing == MissingPortValues(io.inputs, OrEmpty(inputs), heap)
                     \o MissingPortValues(io.outputs, OrEmpty(outputs), heap)
                     \o MissingParams(io.params, OrEmpty(params), heap)
    IN Len(missing) = 0

\* ElementIO.require_any(groups, raise_exception=False); a key that the dict
\* of a group does not hold is NoneV
RECURSIVE RequireAny(_, _, _)
RequireAny(io, groups, heap) ==
    IF Len(groups) = 0 THEN FALSE
    ELSE LET g == Head(groups)
             miss == MissingPortValues(io.inputs, IF IsNone(g.inputs) THEN <<>> ELSE Get(g.inputs), heap)
                       \o MissingPortValues(io.outputs, IF IsNone(g.outputs) THEN <<>> ELSE Get(g.outputs), heap)
                       \o (IF IsNone(g.params) THEN <<>>
                           ELSE MissingParams(io.params, Get(g.params), heap))
         IN IF Len(miss) = 0 THEN TRUE ELSE RequireAny(io, Tail(groups), heap)

\* the wrapper returned by requires(...)(func), called with io; func is the
\* function of the model (CalculateFunc on the parameters params_objs),
\* on_skip is "None", "callable" (a function that records its call) or
\* "other" (an object that is not callable)
RequiresWrapper(io, inputs, outputs, params, any_groups, on_skip, params_objs, heap) ==
    LET ok == IF ~IsNone(any_groups) /\ Len(Get(any_groups)) > 0
              THEN RequireAny(io, Get(any_groups), heap)
              ELSE Require(io, inputs, outputs, params, heap)
    IN IF ~ok
       THEN [invoked |-> FALSE, on_skip |-> (on_skip = "callable"), vals |-> heap]
       ELSE [invoked |-> TRUE, on_skip |-> FALSE,
             vals |-> CalculateFunc(params_objs, heap)]

PathIx == <<"I", ".", "x">>
PathIz == <<"I", ".", "z">>
PathOx == <<"O", ".", "x">>

GroupSet ==
    {<<[inputs |-> NoneV, outputs |-> NoneV, params |-> NoneV]>>,
     <<[inputs |-> Some(<<PathIx>>), outputs |-> NoneV, params |-> NoneV],
       [inputs |-> NoneV, outputs |-> Some(<<PathOx>>), params |-> Some(<<<<"k">>>>)]>>}

\* the arguments of requires: lists without any_groups, the kinds of
\* on_skip, and any_groups with and without a list beside it
RequiresArgs ==
    [inputs : {NoneV, Some(<<PathIx>>), Some(<<PathIx, PathIz>>), Some(<<<<"I">>>>)},
     outputs : {NoneV, Some(<<PathOx>>), Some(<<PathIx>>)},
     params : {NoneV, Some(<<<<"k">>>>)},
     any_groups : {NoneV, Some(<<>>)},
     on_skip : {"callable"}]
    \cup
    [inputs : {Some(<<PathIx>>)}, outputs : {NoneV}, params : {NoneV},
     any_groups : {NoneV}, on_skip : {"None", "other"}]
    \cup
    [inputs : {NoneV, Some(<<PathIz>>)}, outputs : {NoneV}, params : {NoneV},
     any_groups : {Some(g) : g \in GroupSet},
     on_skip : {"None", "callable", "other"}]

RequiresHeap(sI, sO, sK) ==
    [o \in 1..7 |->
        IF o = SchemePortValue(PortI) THEN SchemeValue(Some(1), sI)
        ELSE IF o = SchemePortValue(PortP) THEN SchemeValue(Some(1), sO)
        ELSE IF o = ParamK
        THEN ValueInit(ValueName("k", 1), SpecX, Some(1), sK, TRUE, NoneV, NoneV).v
        ELSE IndexHeap[o]]

InitRequires ==
    /\ \E sI \in StatusSet, sO \in {"UNKNOWN", "DEPEND"}, sK \in {"UNKNOWN", "FIXED"} :
          vals = RequiresHeap(sI, sO, sK)
    /\ ports = SchemePorts
    /\ elems = [e \in {ElemA} |->
                  ElementInitFull(<<"A">>, <<PortItem(PortI, <<"I">>)>>,
                                  <<PortItem(PortP, <<"O">>)>>,
                                  ValueItems(<<ParamK>>, IndexHeap),
                                  TRUE, TRUE, <<>>).e]
    /\ repo = NoRepo
    /\ erepo = NoRepo
    /\ conn = NoConn
    /\ hashOrder = <<>>
    /\ nextId = 0
    /\ scheme = NoScheme
    /\ conns = EmptyMap
    /\ last = NoCall

\* call_user_func(requires(**a)(func), in_ports, out_ports, parameters) on
\* the element e; id holds the arguments, info what was called
CallRequires(e, a) ==
    \E io \in {ElementIOInit(elems[e], ports, vals)} :
    \E r \in {RequiresWrapper(io, a.inputs, a.outputs, a.params, a.any_groups,
                              a.on_skip, RepoObjects(elems[e].parameters), vals)} :
       /\ vals' = r.vals
       /\ last' = CallInfo("requires", "", e, Some(a),
                           [invoked |-> r.invoked, on_skip |-> r.on_skip])
       /\ UNCHANGED <<ports, elems, repo, erepo, conn, hashOrder, nextId, scheme, conns>>

NextRequires == \E a \in RequiresArgs : CallRequires(ElemA, a)

SpecRequires == InitRequires /\ [][NextRequires]_vars

\* the paths "port.value" of the Values of known status in the ports of r
KnownPaths(r) ==
    {ports[q].name \o <<".">> \o vals[v].name :
        <<q, v>> \in {x \in (DOMAIN ports) \X (DOMAIN vals) :
                        /\ \E k \in 1..Len(RepoObjects(r)) : RepoObjects(r)[k] = x[1]
                        /\ \E k \in 1..Len(PortValues(ports[x[1]])) :
                              PortValues(ports[x[1]])[k] = x[2]
                        /\ vals[x[2]].status \in {"CALCULATED", "FIXED", "DEPEND"}}}

KnownParams ==
    {vals[v].name : v \in {x \in DOMAIN vals :
                             /\ \E k \in 1..Len(RepoObjects(elems[ElemA].parameters)) :
                                   RepoObjects(elems[ElemA].parameters)[k] = x
                             /\ vals[x].status \in {"CALCULATED", "FIXED", "DEPEND"}}}

\* every entry of the optional list is in the set
Listed(list, set) ==
    IsNone(list) \/ \A k \in 1..Len(Get(list)) : Get(list)[k] \in set

AllKnown(inputs, outputs, params) ==
    /\ Listed(inputs, KnownPaths(elems[ElemA].in_ports))
    /\ Listed(outputs, KnownPaths(elems[ElemA].out_ports))
    /\ Listed(params, KnownParams)

C38_WitnessGroup ==
    /\ last.op = "requires"
    /\ last.info.invoked
    /\ ~IsNone(Get(last.id).any_groups)
    /\ Len(Get(Get(last.id).any_groups)) = 2
    /\ vals[SchemePortValue(PortI)].status = "UNKNOWN"
    /\ vals[SchemePortValue(PortP)].status = "DEPEND"


--------------------------------------------------------------------------
(* utils/core_elements.py: repos_test_condition over the repositories of  *)
(* the element A (SpecCondition, from the states of InitRequires).        *)

\* Port.list_by_status: the names of the Values whose status is in status_set
PortListByStatus(port, status_set, heap) ==
    LET objs == PortValues(port)
        F[k \in 0..Len(objs)] ==
            IF k = 0 THEN <<>>
            ELSE F[k - 1] \o (IF heap[objs[k]].status \in status_set
                              THEN <<heap[objs[k]].name>> ELSE <<>>)
    IN F[Len(objs)]

\* rep_list_values_by_status: f'{val}_{port.name}' for a repository of ports,
\* value.name for a repository of Values
RepListValuesByStatus(r, status_set, portTable, heap) ==
    LET objs == RepoObjects(r)
        F[k \in 0..Len(objs)] ==
            IF k = 0 THEN <<>>
            ELSE F[k - 1] \o
                 (IF r.repository_type = "port"
                  THEN LET names == PortListByStatus(portTable[objs[k]], status_set, heap)
                       IN [j \in 1..Len(names) |->
                             names[j] \o <<"_">> \o portTable[objs[k]].name]
                  ELSE IF heap[objs[k]].status \in status_set
                  THEN <<heap[objs[k]].name>> ELSE <<>>)
    IN IF r.repository_type \notin {"value", "port"} THEN <<>> ELSE F[Len(objs)]

\* rep_list_values_known / rep_list_values_unknown over every repository
ListedValues(repositories, status_set, portTable, heap) ==
    LET F[k \in 0..Len(repositories)] ==
            IF k = 0 THEN <<>>
            ELSE F[k - 1] \o RepListValuesByStatus(repositories[k], status_set,
                                                   portTable, heap)
    IN F[Len(repositories)]

\* `name in values` for every name of names
AllIn(names, values) ==
    \A k \in 1..Len(names) : \E j \in 1..Len(values) : values[j] = names[k]

\* repos_test_condition: res_unknown is computed from known_names and
\* known_values (line 51); iterating known_names = None raises TypeError
ReposTestCondition(repositories, known_names, unknown_names, portTable, heap) ==
    LET known_values == ListedValues(repositories, {"CALCULATED", "FIXED", "DEPEND"},
                                     portTable, heap)
        res_known == IF Truthy(known_names) THEN AllIn(Get(known_names), known_values)
                     ELSE TRUE
    IN IF ~Truthy(unknown_names) THEN [err |-> "", res |-> Some(res_known)]
       ELSE IF IsNone(known_names) THEN [err |-> "TypeError", res |-> NoneV]
       ELSE IF Get(known_names) = <<>> THEN [err |-> "", res |-> Some(res_known)]
       ELSE [err |-> "", res |-> Some(res_known /\ AllIn(Get(known_names), known_values))]

NameXI == <<"x", "_", "I">>
NameXO == <<"x", "_", "O">>

ConditionArgs ==
    [known_names : {NoneV, Some(<<>>), Some(<<<<"k">>>>), Some(<<NameXI, <<"k">>>>),
                    Some(<<<<"z">>>>)},
     unknown_names : {NoneV, Some(<<>>), Some(<<NameXO>>), Some(<<<<"k">>>>)}]

\* repos_test_condition([in_ports, out_ports, parameters], known_names,
\* unknown_names) as in calculate of functions/dataset.py; id holds the
\* arguments, info the value returned
TestCondition(e, a) ==
    \E r \in {ReposTestCondition(<<elems[e].in_ports, elems[e].out_ports,
                                   elems[e].parameters>>,
                                 a.known_names, a.unknown_names, ports, vals)} :
       /\ last' = CallInfo("repos_test_condition", r.err, e, Some(a), r.res)
       /\ UNCHANGED <<vals, ports, elems, repo, erepo, conn, hashOrder, nextId,
                      scheme, conns>>

NextCondition == \E a \in ConditionArgs : TestCondition(ElemA, a)

SpecCondition == InitRequires /\ [][NextCondition]_vars

\* the names under which repos_test_condition knows the Values of the
\* element whose status is in status_set
NamesOfStatus(status_set) ==
    {vals[v].name \o <<"_">> \o ports[q].name :
        <<q, v>> \in {x \in (DOMAIN ports) \X (DOMAIN vals) :
            /\ \E k \in 1..Len(RepoObjects(elems[ElemA].in_ports) \o RepoObjects(elems[ElemA].out_ports)) :
                  (RepoObjects(elems[ElemA].in_ports) \o RepoObjects(elems[ElemA].out_ports))[k] = x[1]
            /\ \E k \in 1..Len(PortValues(ports[x[1]])) : PortValues(ports[x[1]])[k] = x[2]
            /\ vals[x[2]].status \in status_set}}
    \cup {vals[v].name : v \in {x \in DOMAIN vals :
            /\ \E k \in 1..Len(RepoObjects(elems[ElemA].parameters)) :
                  RepoObjects(elems[ElemA].parameters)[k] = x
            /\ vals[x].status \in status_set}}

\* C39: repos_test_condition returns True exactly when every name of
\* known_names is a Value of known status and every name of unknown_names a
\* Value of status UNKNOWN; a list left out imposes nothing.
C39_TrueIffConditionsMet ==
    last.op = "repos_test_condition"
       => /\ last.res = ""
          /\ last.info = Some(TRUE)
               <=> /\ Listed(Get(last.id).known_names,
                             NamesOfStatus({"CALCULATED", "FIXED", "DEPEND"}))
                   /\ Listed(Get(last.id).unknown_names, NamesOfStatus({"UNKNOWN"}))


--------------------------------------------------------------------------
(* utils/Serialization/registry.py: SerializerRegistry under threads.     *)
(* SpecRegistry: repo holds the registry (_by_name, _by_type, _frozen and *)
(* the owner of _lock), elems the threads.  The threads r1, r2, r3 each   *)
(* call register(s, override) with a serializer of their own, the thread  *)
(* fz calls freeze(); a step is one statement of the method.              *)

RegThreads == {"r1", "r2", "r3"}
FreezeThread == "fz"

\* mutant: the lock is not waited for
LockFreeAlways(lock, t) == TRUE

\* threading.RLock: free, or held by the thread that asks again
LockFree(lock, t) == IsNone(lock) \/ lock = Some(t)

\* s.handles of the serializer of thread t
Handles(t) == IF t = "r1" THEN <<"int">> ELSE <<"int", "str">>

\* SerializerRegistry.__init__
RegistryInit ==
    [by_name |-> EmptyMap, by_type |-> EmptyMap, frozen |-> FALSE, lock |-> NoneV]

InitRegistry ==
    /\ repo = RegistryInit
    /\ \E n2 \in {"a", "b"}, n3 \in {"a", "b"}, o2 \in BOOLEAN, o3 \in BOOLEAN :
          elems = [t \in RegThreads \cup {FreezeThread} |->
                     [pc |-> "start",
                      name |-> IF t = "r2" THEN n2 ELSE IF t = "r3" THEN n3 ELSE "a",
                      override |-> IF t = "r2" THEN o2 ELSE IF t = "r3" THEN o3 ELSE FALSE,
                      i |-> 1, outcome |-> ""]]
    /\ vals = EmptyMap
    /\ ports = EmptyMap
    /\ erepo = NoRepo
    /\ conn = NoConn
    /\ hashOrder = <<>>
    /\ nextId = 0
    /\ scheme = NoScheme
    /\ conns = EmptyMap
    /\ last = NoCall

\* the thread t moves to pc with the outcome given, the registry becomes r
ThreadStep(t, pc, outcome, r) ==
    /\ elems' = [elems EXCEPT ![t].pc = pc, ![t].outcome = outcome]
    /\ repo' = r
    /\ UNCHANGED <<vals, ports, erepo, conn, hashOrder, nextId, scheme, conns, last>>

\* register, line 38: with self._lock
RegAcquire(t) ==
    /\ elems[t].pc = "start"
    /\ LockFree(repo.lock, t)
    /\ ThreadStep(t, "check_frozen", "", [repo EXCEPT !.lock = Some(t)])

\* register, lines 39-40; the exception leaves the with block, which
\* releases the lock
RegCheckFrozen(t) ==
    /\ elems[t].pc = "check_frozen"
    /\ IF repo.frozen /\ ~elems[t].override
       THEN ThreadStep(t, "done", "RuntimeError", [repo EXCEPT !.lock = NoneV])
       ELSE ThreadStep(t, "check_name", "", repo)

\* register, lines 41-42
RegCheckName(t) ==
    /\ elems[t].pc = "check_name"
    /\ IF ~elems[t].override /\ elems[t].name \in DOMAIN repo.by_name
       THEN ThreadStep(t, "done", "ValueError", [repo EXCEPT !.lock = NoneV])
       ELSE ThreadStep(t, "write_name", "", repo)

\* register, line 43
RegWriteName(t) ==
    /\ elems[t].pc = "write_name"
    /\ ThreadStep(t, "write_type", "",
                  [repo EXCEPT !.by_name = MapSet(@, elems[t].name, t)])

\* register, lines 45-46: one turn of the loop over s.handles
RegWriteType(t) ==
    /\ elems[t].pc = "write_type"
    /\ elems[t].i <= Len(Handles(t))
    /\ elems' = [elems EXCEPT ![t].i = @ + 1]
    /\ repo' = [repo EXCEPT !.by_type = MapSet(@, Handles(t)[elems[t].i], t)]
    /\ UNCHANGED <<vals, ports, erepo, conn, hashOrder, nextId, scheme, conns, last>>

\* register: the end of the with block
RegRelease(t) ==
    /\ elems[t].pc = "write_type"
    /\ elems[t].i > Len(Handles(t))
    /\ ThreadStep(t, "done", "ok", [repo EXCEPT !.lock = NoneV])

\* freeze, line 61
FreezeAcquire ==
    /\ elems[FreezeThread].pc = "start"
    /\ LockFree(repo.lock, FreezeThread)
    /\ ThreadStep(FreezeThread, "set", "", [repo EXCEPT !.lock = Some(FreezeThread)])

\* freeze, line 62
FreezeSet ==
    /\ elems[FreezeThread].pc = "set"
    /\ ThreadStep(FreezeThread, "release", "", [repo EXCEPT !.frozen = TRUE])

\* freeze: the end of the with block
FreezeRelease ==
    /\ elems[FreezeThread].pc = "release"
    /\ ThreadStep(FreezeThread, "done", "ok", [repo EXCEPT !.lock = NoneV])

NextRegistry ==
    \/ \E t \in RegThreads : RegAcquire(t)
    \/ \E t \in RegThreads : RegCheckFrozen(t)
    \/ \E t \in RegThreads : RegCheckName(t)
    \/ \E t \in RegThreads : RegWriteName(t)
    \/ \E t \in RegThreads : RegWriteType(t)
    \/ \E t \in RegThreads : RegRelease(t)
    \/ FreezeAcquire
    \/ FreezeSet
    \/ FreezeRelease

SpecRegistry == InitRegistry /\ [][NextRegistry]_vars

\* the threads that register the name n without override
Plain(n) == {t \in RegThreads : elems[t].name = n /\ ~elems[t].override}

\* the serializers held by the maps of the registry
Held(r) ==
    {r.by_name[n] : n \in DOMAIN r.by_name} \cup {r.by_type[y] : y \in DOMAIN r.by_type}

\* C40: a frozen registry stays frozen and lets no register without
\* override succeed; no register without override succeeds for a name that
\* is registered; a register that raises leaves both maps as they were and
\* holds nothing of its serializer; of the threads that register one name
\* without override at most one succeeds, and exactly one when none of them
\* met the frozen registry and no register with override of that name ran.
C40_RegistryUnderThreads ==
    /\ [](\A n \in {"a", "b"} :
            /\ Cardinality({t \in Plain(n) : elems[t].outcome = "ok"}) <= 1
            /\ (/\ Plain(n) # {}
                /\ \A t \in Plain(n) : elems[t].outcome \in {"ok", "ValueError"}
                /\ \A t \in RegThreads :
                      (elems[t].name = n /\ elems[t].override) => elems[t].pc = "start")
                  => Cardinality({t \in Plain(n) : elems[t].outcome = "ok"}) = 1)
    /\ [](\A t \in RegThreads :
            elems[t].outcome \in {"RuntimeError", "ValueError"} => t \notin Held(repo))
    /\ [][/\ repo.frozen => repo'.frozen
          /\ \A t \in RegThreads :
                /\ (elems[t].outcome = "" /\ elems'[t].outcome = "ok" /\ ~elems[t].override)
                      => ~repo.frozen
                /\ (elems[t].outcome = "" /\ elems'[t].outcome \in {"RuntimeError", "ValueError"})
                      => /\ repo'.by_name = repo.by_name
                         /\ repo'.by_type = repo.by_type
                /\ (RegWriteName(t) /\ ~elems[t].override)
                      => elems[t].name \notin DOMAIN repo.by_name]_vars

\* r1 and r2 registered the name a without override, one of them succeeded
\* and the other raised for the name; r3 met the frozen registry
C40_Witness ==
    /\ elems["r2"].name = "a" /\ ~elems["r2"].override
    /\ {elems["r1"].outcome, elems["r2"].outcome} = {"ok", "ValueError"}
    /\ ~elems["r3"].override /\ elems["r3"].outcome = "RuntimeError"
    /\ repo.frozen
    /\ repo.by_name["a"] \in {"r1", "r2"}

====
